---- MODULE Spec2Model ----
(***************************************************************************)
(* felly::basic_unique_any (include/felly/unique_any.hpp): an exclusive    *)
(* ownership wrapper over a storage-traits class.  The model covers the    *)
(* traits classes the repository instantiates:                             *)
(*   "fd"      fd_like_traits (tests): int storage, empty = -1, v >= 0     *)
(*   "optpred" unique_any_optional_storage_traits with predicate v >= 0    *)
(*   "opt"     unique_any_optional_storage_traits without predicate        *)
(*   "ptr"     unique_any_pointer_traits without predicate                 *)
(*   "negptr"  negative_pointer_traits (tests): non-null and not (T* )-1   *)
(* and, in a specification of its own (SpecPtrPred), the combination the   *)
(* class comment of basic_unique_any describes but no test instantiates:   *)
(*   "ptrpred" unique_any_pointer_traits with the predicate p != (T* )-1   *)
(* Raw values are integers: pointers are addresses with nullptr = 0 and    *)
(* the sentinel (T* )-1 = -1; resources are 1..MaxVal, each handed to a    *)
(* wrapper at most once.  Storage is a record [engaged, val]: for the      *)
(* optional traits engaged is std::optional's flag; the direct traits keep *)
(* the bare value and engaged is fixed TRUE.                               *)
(*                                                                         *)
(* The collaborators have a specification each, over variables of their    *)
(* own that the wrapper's actions leave alone:                             *)
(*   SpecScope  felly::detail::basic_scope_exit (scope_exit.hpp)           *)
(*   SpecScopeDynamic  the same, with guards that are also created with    *)
(*              new (or emplaced in a longer-lived object) and deleted     *)
(*              later                                                      *)
(*   SpecFlag   felly::moved_flag (moved_flag.hpp)                         *)
(*   SpecGuarded felly::guarded_data and its accessor (guarded_data.hpp)   *)
(*   SpecCast   felly::numeric_cast, integral to integral                  *)
(*              (numeric_cast.hpp), over integer types of 1..MaxBits bits  *)
(***************************************************************************)
EXTENDS Integers, Sequences, FiniteSets, TLC

NumWrappers == 2
MaxVal == 2
\* cap on the deleter calls that rejected raw values can collect
MaxCalls == 1
\* cap on the deleter calls that the null pointer can collect (one std::swap
\* of pointer wrappers with a predicate makes three)
MaxNullCalls == 3

nullptr == 0
Invalid == 0 - 1

Wrappers == 1..NumWrappers
\* The temporary that std::swap move-constructs; it lives only inside Swap.
Tmp == NumWrappers + 1
Slots == Wrappers \cup {Tmp}
Resources == 1..MaxVal
RawVals == (0 - 2)..MaxVal

TraitsKinds == {"fd", "optpred", "opt", "ptr", "negptr"}
OptionalKinds == {"optpred", "opt"}
\* value_type is a pointer: the in-place constructor is not available.
PointerKinds == {"ptr", "negptr", "ptrpred"}
\* traits for which the tests instantiate a mutable and a const view
PromotableKinds == {"opt", "ptr"}

\* the guards a scope-exit program constructs, one after the other
NumGuards == 3
\* the guards, try blocks, handlers and destructor bodies open at one time
MaxDepth == 3
\* the exceptions in flight at one time
MaxUncaught == 1
\* the moved_flag objects of a program
NumFlags == 3
\* the threads that use one guarded_data object
NumThreads == 2
\* the accessors (unique_guarded_data_lock objects) they construct
NumAccessors == 2
\* the widths, in bits, of the integer types numeric_cast converts between
MaxBits == 3

VARIABLES traits, life, view, storage, del, next, disowned, last,
          modified, adapter

\* basic_scope_exit: the policy TWhen of the guard type the program uses,
\* the guard objects, their life cycle and history, the open scopes of the
\* thread, whether the stack is being unwound, std::uncaught_exceptions(),
\* the calls each callback has seen, and the last step taken
VARIABLES policy, guards, ginfo, frames, unwinding, uncaught, invoked, slast

unique_any_vars == <<traits, life, view, storage, del, next, disowned, last,
                     modified, adapter>>

\* moved_flag: the flag objects, and the last operation
VARIABLES flags, flast

flag_vars == <<flags, flast>>

\* guarded_data<T>: the thread that has locked mMutex (0: unlocked), the
\* guarded value mData, the accessor objects, and the last operation
VARIABLES mMutex, mData, acc, glast

guarded_vars == <<mMutex, mData, acc, glast>>

\* numeric_cast<T>(v): the call (its types, its argument) and its outcome
VARIABLES ncast

cast_vars == <<ncast>>

scope_vars == <<policy, guards, ginfo, frames, unwinding, uncaught, invoked, slast>>

collaborators == <<scope_vars, flag_vars, guarded_vars, cast_vars>>

\* what the operations of one collaborator leave alone
not_scope == <<unique_any_vars, flag_vars, guarded_vars, cast_vars>>

not_flag == <<unique_any_vars, scope_vars, guarded_vars, cast_vars>>

not_guarded == <<unique_any_vars, scope_vars, flag_vars, cast_vars>>

not_cast == <<unique_any_vars, scope_vars, flag_vars, guarded_vars>>

vars == <<traits, life, view, storage, del, next, disowned, last,
          modified, adapter, collaborators>>

--------------------------------------------------------------------------
(* Storage traits *)

nullopt == [engaged |-> FALSE, val |-> 0]

Stored(v) == [engaged |-> TRUE, val |-> v]

has_predicate(k) == k \in {"optpred", "ptrpred"}

\* The TPredicate of unique_fd_like_inline.
TPredicate(v) == v >= 0

\* A TPredicate for a library whose sentinel is (some_ptr)-1.
NotSentinel(v) == v # Invalid

default_value(k) ==
  CASE k \in OptionalKinds -> nullopt
    [] k = "fd" -> Stored(Invalid)
    [] OTHER -> Stored(nullptr)

\* TTraits::has_value(const value_type&): is a raw value acceptable
has_value_raw(k, v) ==
  CASE k \in OptionalKinds -> IF has_predicate(k) THEN TPredicate(v) ELSE TRUE
    [] k = "fd" -> v >= 0
    [] k \in {"ptr", "ptrpred"} ->
         IF has_predicate(k) THEN NotSentinel(v) ELSE v # nullptr
    [] k = "negptr" -> v # nullptr /\ v # Invalid

\* Mutant: an engaged optional has a value, whatever the predicate says.
has_value_engaged(k, s) ==
  IF k \in OptionalKinds THEN s.engaged ELSE has_value_raw(k, s.val)

\* TTraits::has_value(const storage_type&)
has_value(k, s) ==
  IF k \in OptionalKinds
    THEN s.engaged /\ has_value_raw(k, s.val)
    ELSE has_value_raw(k, s.val)

\* TTraits::construct(storage, value): the new content of the slot
construct(k, v) == Stored(v)

\* TTraits::value(storage)
value(s) == s.val

--------------------------------------------------------------------------
(* The wrapper's operations, as functions on st = [storage, del, ev]:      *)
(* storage of every slot, number of deleter calls per raw value, and the   *)
(* events of the running operation in program order:                       *)
(*   <<"del", v, "emptied" | "held", "modified" | "original">>             *)
(*                                     deleter called for v, while the     *)
(*                                     slot has no value any more or still *)
(*                                     has one, and the content it finds   *)
(*                                     in v                                *)
(*   <<"pred", v, "ok" | "rejected">>  TTraits::has_value(v) on a raw value *)
(*   <<"store", v, "">>                TTraits::construct stored v         *)

\* What a reader of v's object (the pointee, or the object in the optional)
\* finds: the content it was created with, or one written through a mutable
\* wrapper.
Content(v) == IF v \in modified THEN "modified" ELSE "original"

\* invoke_as_deleter / Tracker::track
invoke_as_deleter(st, v, slotState) ==
  [st EXCEPT !.del[v] = @ + 1,
             !.ev = Append(@, <<"del", v, slotState, Content(v)>>)]

\* What the deleter would find if it looked at the wrapper during its call.
SlotState(k, st, w) ==
  IF has_value(k, st.storage[w]) THEN "held" ELSE "emptied"

\* Mutant: the deleter runs but the slot keeps the value.
destroy_keeps_value(k, st, w) ==
  invoke_as_deleter(st, value(st.storage[w]), SlotState(k, st, w))

\* Mutant: the deleter runs first, the slot is emptied afterwards.
destroy_deletes_first(k, st, w) ==
  [invoke_as_deleter(st, value(st.storage[w]), SlotState(k, st, w))
     EXCEPT !.storage[w] = default_value(k)]

\* TTraits::destroy(storage)
destroy(k, st, w) ==
  LET v == value(st.storage[w]) IN
  CASE k \in OptionalKinds ->
         \* temp = std::move(s).value(); s.reset(); deleter(temp)
         LET st1 == [st EXCEPT !.storage[w] = nullopt]
         IN invoke_as_deleter(st1, v, SlotState(k, st1, w))
    [] k \in {"ptr", "ptrpred"} ->
         \* deleter(std::exchange(storage, nullptr))
         LET st1 == [st EXCEPT !.storage[w] = Stored(nullptr)]
         IN invoke_as_deleter(st1, v, SlotState(k, st1, w))
    [] k = "fd" ->
         \* Tracker::track(s); s = default_value()
         [invoke_as_deleter(st, v, SlotState(k, st, w))
            EXCEPT !.storage[w] = default_value(k)]
    [] k = "negptr" ->
         \* Tracker::track(s->value); delete std::exchange(s, nullptr)
         [invoke_as_deleter(st, v, SlotState(k, st, w))
            EXCEPT !.storage[w] = Stored(nullptr)]

\* Mutant: the value is stored without asking the predicate.
store_unchecked(k, st, w, u) ==
  [st EXCEPT !.storage[w] = construct(k, u),
             !.ev = @ \o << <<"pred", u, "ok">>, <<"store", u, "">> >>]

\* if (TTraits::has_value(u)) TTraits::construct(storage, u)
store_if_valid(k, st, w, u) ==
  IF has_value_raw(k, u)
    THEN [st EXCEPT !.storage[w] = construct(k, u),
                    !.ev = @ \o << <<"pred", u, "ok">>, <<"store", u, "">> >>]
    ELSE [st EXCEPT !.ev = Append(@, <<"pred", u, "rejected">>)]

\* basic_unique_any(std::nullopt_t): storage {TTraits::default_value()}
ctor_nullopt(k, st, w) == [st EXCEPT !.storage[w] = default_value(k)]

\* Mutant: stores first and destroys a rejected value, as the in-place
\* constructor does.
ctor_value_destroys_rejected(k, st, w, v) ==
  LET st1 == [st EXCEPT !.storage[w] = construct(k, v),
                        !.ev = Append(@, <<"pred", v, "ok">>)]
  IN IF ~has_value_raw(k, v) THEN destroy(k, st1, w) ELSE st1

\* basic_unique_any(U&& value)
ctor_value(k, st, w, v) == store_if_valid(k, ctor_nullopt(k, st, w), w, v)

\* Mutant: a value that fails the predicate stays in the storage.
ctor_in_place_keeps_rejected(k, st, w, v) ==
  [st EXCEPT !.storage[w] = construct(k, v),
             !.ev = Append(@, <<"store", v, "">>)]

\* basic_unique_any(std::in_place_t, Args&&...)
ctor_in_place(k, st, w, v) ==
  LET st1 == [st EXCEPT !.storage[w] = construct(k, v),
                        !.ev = Append(@, <<"store", v, "">>)]
  IN IF ~has_value(k, st1.storage[w]) THEN destroy(k, st1, w) ELSE st1

\* Mutant: the source keeps its value.
ctor_move_copies(k, st, w, other) ==
  [st EXCEPT !.storage[w] =
     IF has_value(k, st.storage[other]) THEN st.storage[other]
                                        ELSE default_value(k)]

\* basic_unique_any(basic_unique_any&& other)
ctor_move(k, st, w, other) ==
  LET st1 == ctor_nullopt(k, st, w) IN
  IF has_value(k, st1.storage[other])
    THEN [st1 EXCEPT !.storage[w] = st1.storage[other],
                     !.storage[other] = st1.storage[w]]
    ELSE st1

\* Mutant: the check is missing.
require_value_never_throws(k, st, w) == FALSE

\* require_value(): TRUE iff it throws std::logic_error
require_value_throws(k, st, w) == ~has_value(k, st.storage[w])

\* Mutant: the value is returned but stays in the storage.
disown_keeps_value(k, st, w) ==
  IF ~has_value(k, st.storage[w])
    THEN [st |-> st, ret |-> <<>>, thrown |-> TRUE]
    ELSE [st |-> st, ret |-> <<value(st.storage[w])>>, thrown |-> FALSE]

\* disown(): [st, ret, thrown]
disown(k, st, w) ==
  IF require_value_throws(k, st, w)
    THEN [st |-> st, ret |-> <<>>, thrown |-> TRUE]
    ELSE [st |-> [st EXCEPT !.storage[w] = default_value(k)],
          ret |-> <<value(st.storage[w])>>, thrown |-> FALSE]

\* get(), operator*, operator->, operator&: [ret, thrown]
get(k, st, w) ==
  IF require_value_throws(k, st, w)
    THEN [ret |-> <<>>, thrown |-> TRUE]
    ELSE [ret |-> <<value(st.storage[w])>>, thrown |-> FALSE]

\* reset()
reset(k, st, w) ==
  IF has_value(k, st.storage[w]) THEN destroy(k, st, w) ELSE st

\* Mutant: the new value is tested first, and a rejected one changes nothing.
reset_u_tests_first(k, st, w, u) ==
  IF has_value_raw(k, u)
    THEN LET st1 == IF has_value(k, st.storage[w]) THEN destroy(k, st, w) ELSE st
         IN [st1 EXCEPT !.storage[w] = construct(k, u),
                        !.ev = @ \o << <<"pred", u, "ok">>, <<"store", u, "">> >>]
    ELSE [st EXCEPT !.ev = Append(@, <<"pred", u, "rejected">>)]

\* reset(U&& u)
reset_u(k, st, w, u) ==
  LET st1 == IF has_value(k, st.storage[w]) THEN destroy(k, st, w) ELSE st
  IN store_if_valid(k, st1, w, u)

\* Mutant: the value is taken with get() instead of disown().
adopt_without_disown(k, st, w, other) ==
  IF has_value(k, st.storage[other])
    THEN [st EXCEPT !.storage[w] = construct(k, value(st.storage[other])),
                    !.ev = Append(@, <<"store", value(st.storage[other]), "">>)]
    ELSE st

\* if (other) TTraits::construct(storage, other.disown())
adopt(k, st, w, other) ==
  IF has_value(k, st.storage[other])
    THEN LET r == disown(k, st, other) IN
         [r.st EXCEPT !.storage[w] = construct(k, Head(r.ret)),
                      !.ev = Append(@, <<"store", Head(r.ret), "">>)]
    ELSE st

\* Mutant: no check for self-assignment.
move_assign_no_self_check(k, st, w, other) ==
  adopt(k, reset(k, st, w), w, other)

\* Mutant: the destination's value is overwritten without reset().
promote_assign_no_reset(k, st, w, other) == adopt(k, st, w, other)

\* Mutant: the destination's value is overwritten without reset().
move_assign_no_reset(k, st, w, other) ==
  IF w = other THEN st ELSE adopt(k, st, w, other)

\* operator=(basic_unique_any&& other)
move_assign(k, st, w, other) ==
  IF w = other THEN st ELSE adopt(k, reset(k, st, w), w, other)

\* basic_unique_any(basic_unique_any<UTraits>&& other), const promotion
ctor_promote(k, st, w, other) == adopt(k, ctor_nullopt(k, st, w), w, other)

\* operator=(basic_unique_any<UTraits>&& other), const promotion
promote_assign(k, st, w, other) == adopt(k, reset(k, st, w), w, other)

\* ~basic_unique_any()
destructor(k, st, w) == reset(k, st, w)

\* Mutant: no temporary.
swap_without_temporary(k, st, a, b) ==
  move_assign(k, move_assign(k, st, a, b), b, a)

\* std::swap(a, b): T tmp(std::move(a)); a = std::move(b); b = std::move(tmp);
swap(k, st, a, b) ==
  LET st1 == ctor_move(k, st, Tmp, a)
      st2 == move_assign(k, st1, a, b)
      st3 == move_assign(k, st2, b, Tmp)
  IN destructor(k, st3, Tmp)

\* Mutant: the wrapper is reset and the slot starts null, as std::out_ptr
\* does.
inout_ptr_ctor_resets(k, st, w) ==
  [st |-> reset(k, st, w), ptr |-> nullptr]

\* Mutant: the slot is filled with get(), and the wrapper keeps its value.
inout_ptr_ctor_keeps_value(k, st, w) ==
  IF has_value(k, st.storage[w])
    THEN [st |-> st, ptr |-> value(st.storage[w])]
    ELSE [st |-> st, ptr |-> nullptr]

\* inout_ptr_t(Smart& smart, Args&&...): [st, ptr]
inout_ptr_ctor(k, st, w) ==
  IF has_value(k, st.storage[w])
    THEN LET r == disown(k, st, w) IN [st |-> r.st, ptr |-> Head(r.ret)]
    ELSE [st |-> st, ptr |-> nullptr]

\* Mutant: the slot is dropped.
inout_ptr_dtor_drops_slot(k, st, w, ptr) == st

\* ~inout_ptr_t(): smart.reset(ptr)
inout_ptr_dtor(k, st, w, ptr) == reset_u(k, st, w, ptr)

\* std::out_ptr_t<Smart, Pointer>(smart) of the standard library, which
\* unique_ptr.hpp leaves unspecialised: s.reset(), and the slot p is
\* value-initialised: [st, ptr]
out_ptr_ctor(k, st, w) == [st |-> reset(k, st, w), ptr |-> nullptr]

\* Mutant: the slot is dropped.
out_ptr_dtor_drops_slot(k, st, w, ptr) == st

\* ~out_ptr_t(): if (p) s.reset(p)
out_ptr_dtor(k, st, w, ptr) ==
  IF ptr # nullptr THEN reset_u(k, st, w, ptr) ELSE st

\* Mutant: the destructor is skipped when the call threw.
destructor_runs_on_return_only(exit) == exit = "returned"

\* The adapter is a temporary of the call's full-expression: its destructor
\* runs when the expression ends, by return or by exception.
destructor_runs(exit) == exit \in {"returned", "threw"}

\* The ordering of two integers, as std::strong_ordering: -1, 0 or 1.
Sign(a, b) == IF a < b THEN 0 - 1 ELSE IF a > b THEN 1 ELSE 0

\* operator<=>(const basic_unique_any&, const basic_unique_any&) = default:
\* the ordering of the storage members.  Two std::optional compare by value
\* when both are engaged and by engagement otherwise; pointers and ints
\* compare as such.
three_way(k, s1, s2) ==
  IF k \in OptionalKinds /\ ~(s1.engaged /\ s2.engaged)
    THEN Sign(IF s1.engaged THEN 1 ELSE 0, IF s2.engaged THEN 1 ELSE 0)
    ELSE Sign(s1.val, s2.val)

\* Mutant: wrappers are equal when both hold a value or neither does.
equals_holding_state(k, s1, s2) == has_value(k, s1) = has_value(k, s2)

\* operator==(const basic_unique_any&) const = default
equals(k, s1, s2) ==
  IF k \in OptionalKinds
    THEN /\ s1.engaged = s2.engaged
         /\ (s1.engaged /\ s2.engaged) => s1.val = s2.val
    ELSE s1.val = s2.val

\* Mutant: the stored value is compared whether or not the wrapper holds one.
equals_value_no_empty_case(k, s, other) == value(s) = other

\* operator==(const value_type& other) const
equals_value(k, s, other) ==
  IF ~has_value(k, s)
    THEN ~has_value_raw(k, other)
    ELSE value(s) = other

--------------------------------------------------------------------------
(* The program state.                                                      *)
(*   traits    the traits class of every wrapper of the run                *)
(*   life      "unborn" / "live" / "dead": each wrapper object is          *)
(*             constructed once and destroyed once, and wrappers are       *)
(*             numbered in the order of their construction                 *)
(*   view      "mut" / "const": the constness of a live wrapper's          *)
(*             value_type ("none" outside the lifetime)                    *)
(*   storage   each wrapper's storage member                               *)
(*   del       Tracker: how often the deleter was called per raw value     *)
(*   next      the next resource not yet handed to a wrapper               *)
(*   disowned  values returned to the caller by disown()                   *)
(*   modified  the resources whose object was written to through a mutable *)
(*             wrapper                                                     *)
(*   adapter   the std::inout_ptr adapter of the running full-expression:  *)
(*             its phase ("none" when there is none, "open" once           *)
(*             constructed, "returned" / "threw" once the routine it was   *)
(*             passed to has ended), the wrapper it refers to, its slot    *)
(*             ptr, and what its constructor took from the wrapper         *)
(*   last      the call that has just returned: its operands w and src,    *)
(*             their storage before it (pre), the modified objects before  *)
(*             it (mod), its result and its events;                        *)
(*             Idle once the caller has moved on (Forget), so that every   *)
(*             program state is explored once and not once per record      *)

\* res: thrown iff std::logic_error was thrown, ret the returned value if any
NoResult == [thrown |-> FALSE, ret |-> <<>>]

Idle == [op |-> "none", w |-> Tmp, src |-> Tmp, arg |-> <<>>,
         pre |-> [s \in Slots |-> nullopt], mod |-> {},
         res |-> NoResult, ev |-> <<>>]

\* No std::inout_ptr or std::out_ptr adapter exists.
NoAdapter == [phase |-> "none", kind |-> "none", smart |-> Tmp,
              ptr |-> nullptr, taken |-> nullptr]

\* The caller is between two calls, and not inside a full-expression that
\* holds an adapter.
Ready == last = Idle /\ adapter.phase = "none"

Views(k) == IF k \in PromotableKinds THEN {"mut", "const"} ELSE {"const"}

\* A predicate-rejected raw value a caller can hold, per traits class.
InvalidRaw(k) ==
  CASE k \in {"fd", "optpred"} -> {Invalid, Invalid - 1}
    [] k = "opt" -> {}
    [] k = "ptr" -> {nullptr}
    [] k = "negptr" -> {nullptr, Invalid}
    [] k = "ptrpred" -> {Invalid}

\* What a caller can hand to a constructor or to reset(u): a rejected raw
\* value, or a resource it has just acquired.
Inputs == InvalidRaw(traits) \cup (IF next <= MaxVal THEN {next} ELSE {})

\* Deleter calls made for rejected raw values so far.
RejectedCalls == del[nullptr] + del[Invalid] + del[Invalid - 1]

Taken(v) == IF v \in Resources THEN next + 1 ELSE next

\* The resources that wrappers hold in st, out of those whose pointee or
\* object was written to: the content of a released object is gone.
StillHeld(st) ==
  modified \cap {value(st.storage[w]) :
                   w \in {x \in Wrappers : has_value(traits, st.storage[x])}}

\* The deleter calls for raw values that are no resource stay within the
\* bound.
Bounded(st) ==
  /\ st.del[Invalid] + st.del[Invalid - 1] <= MaxCalls
  /\ st.del[nullptr] <= MaxNullCalls

State == [storage |-> storage, del |-> del, ev |-> <<>>]

Record(op, w, src, arg, res, st) ==
  [op |-> op, w |-> w, src |-> src, arg |-> arg,
   pre |-> [s \in Slots |-> IF s \in {w, src} THEN storage[s]
                                              ELSE default_value(traits)],
   mod |-> modified, res |-> res, ev |-> st.ev]

--------------------------------------------------------------------------
(* The collaborators before anything was constructed *)

Guards == 1..NumGuards

\* mInitialUncaught of a guard with the policy Always: `struct empty {}`
empty == 0 - 1

NoGuard == [TWhen |-> "Always", mInitialUncaught |-> empty, mCallback |-> 0,
            mOwned |-> FALSE]

\* life: unborn, live or dead; created: std::uncaught_exceptions() when the
\* object was constructed; origin: the same for the guard that was
\* constructed with its callback; from: the guard it was move-constructed
\* from (0: constructed from a callback); armed: mOwned at construction;
\* released: release() was called on it; moved: it was moved from;
\* cancelled: release() was called on a guard that owned the callback this
\* guard was constructed with
NoInfo == [life |-> "unborn", created |-> 0, origin |-> 0, from |-> 0,
           armed |-> FALSE, released |-> FALSE, moved |-> FALSE,
           cancelled |-> FALSE]

\* The last step: on guard g (from guard src), with exit the way the scope
\* was left, now = std::uncaught_exceptions(), fired iff the callback was
\* invoked, and pre, info the guard (for a move: the source) before the step
SIdle == [op |-> "none", g |-> 0, src |-> 0, exit |-> "none", now |-> 0,
          fired |-> FALSE, pre |-> NoGuard, info |-> NoInfo]

Policies == {"Always", "OnFailure", "OnSuccess"}

ScopeInit ==
  /\ guards = [g \in Guards |-> NoGuard]
  /\ ginfo = [g \in Guards |-> NoInfo]
  /\ frames = <<>>
  /\ unwinding = FALSE
  /\ uncaught = 0
  /\ invoked = [f \in Guards |-> 0]
  /\ slast = SIdle

Flags == 1..NumFlags
\* The temporary that std::swap move-constructs.
FTmp == NumFlags + 1

FIdle == [op |-> "none", dst |-> FTmp, src |-> FTmp,
          pre |-> [f \in Flags |-> FALSE]]

FlagInit ==
  /\ flags = [f \in Flags |-> [life |-> "unborn", mMoved |-> FALSE]]
  /\ flast = FIdle

Threads == 1..NumThreads

Accessors == 1..NumAccessors

\* An accessor object that does not exist (not yet, or no longer).  pm, owns: the std::unique_lock mLock
\* (pm: it refers to mMutex; owns: it owns the lock); mData: "data" for
\* &mData, "nullptr" otherwise; thread: the thread whose object it is;
\* wrote: what that thread last wrote through it (0: nothing)
NoAccessor == [life |-> "unborn", thread |-> 0, pm |-> FALSE, owns |-> FALSE,
               mData |-> "nullptr", wrote |-> 0]

GIdle == [op |-> "none", a |-> 0, src |-> 0, thrown |-> FALSE, ret |-> 0,
          pre |-> NoAccessor, from |-> NoAccessor, locked |-> 0]

GuardedInit ==
  /\ mMutex = 0
  /\ mData = 0
  /\ acc = [a \in Accessors |-> NoAccessor]
  /\ glast = GIdle

\* An integer type: its signedness and its width in bits.
IntTypes == [signed : BOOLEAN, bits : 1..MaxBits]

\* no call of numeric_cast
CIdle == [phase |-> "none", T |-> [signed |-> FALSE, bits |-> 1],
          U |-> [signed |-> FALSE, bits |-> 1], v |-> 0,
          thrown |-> FALSE, ret |-> 0]

CastInit == ncast = CIdle

\* No collaborator object is constructed, now or later.
CollaboratorsInit ==
  /\ policy = "Always"
  /\ ScopeInit
  /\ FlagInit
  /\ GuardedInit
  /\ CastInit

--------------------------------------------------------------------------
(* The wrapper's state machine *)

Init ==
  /\ CollaboratorsInit
  /\ traits \in TraitsKinds
  /\ life = [w \in Wrappers |-> "unborn"]
  /\ view = [w \in Wrappers |-> "none"]
  /\ storage = [s \in Slots |-> default_value(traits)]
  /\ del = [v \in RawVals |-> 0]
  /\ next = 1
  /\ disowned = {}
  /\ last = Idle
  /\ modified = {}
  /\ adapter = NoAdapter

\* No wrapper is constructed, now or later.
NoWrappers ==
  /\ traits = "fd"
  /\ life = [w \in Wrappers |-> "unborn"]
  /\ view = [w \in Wrappers |-> "none"]
  /\ storage = [s \in Slots |-> default_value("fd")]
  /\ del = [v \in RawVals |-> 0]
  /\ next = 1
  /\ disowned = {}
  /\ last = Idle
  /\ modified = {}
  /\ adapter = NoAdapter

\* The next object to be constructed.
Constructible(w) ==
  /\ life[w] = "unborn"
  /\ \A x \in Wrappers : x < w => life[x] # "unborn"

\* Effects of a constructor that built wrapper w with view vw.
Born(op, w, vw, src, arg, result) ==
  \E st \in {result} :
    /\ Bounded(st)
    /\ life' = [life EXCEPT ![w] = "live"]
    /\ view' = [view EXCEPT ![w] = vw]
    /\ storage' = st.storage
    /\ del' = st.del
    /\ last' = Record(op, w, src, arg, NoResult, st)
    /\ modified' = StillHeld(st)
    /\ UNCHANGED <<collaborators, traits, disowned, adapter>>

\* Effects of a member function on live wrappers.
Mutated(op, w, src, arg, result) ==
  \E st \in {result} :
    /\ Bounded(st)
    /\ storage' = st.storage
    /\ del' = st.del
    /\ last' = Record(op, w, src, arg, NoResult, st)
    /\ modified' = StillHeld(st)
    /\ UNCHANGED <<collaborators, traits, life, view, disowned, adapter>>

CtorNullopt(w) ==
  /\ Ready
  /\ Constructible(w)
  /\ \E vw \in Views(traits) :
       Born("ctor_nullopt", w, vw, Tmp, <<>>, ctor_nullopt(traits, State, w))
  /\ UNCHANGED next

CtorValue(w) ==
  /\ Ready
  /\ Constructible(w)
  /\ \E v \in Inputs, vw \in Views(traits) :
       /\ Born("ctor_value", w, vw, Tmp, <<v>>, ctor_value(traits, State, w, v))
       /\ next' = Taken(v)

CtorInPlace(w) ==
  /\ Ready
  /\ Constructible(w)
  /\ traits \notin PointerKinds
  /\ \E v \in Inputs, vw \in Views(traits) :
       /\ v \in InvalidRaw(traits) => RejectedCalls < MaxCalls
       /\ Born("ctor_in_place", w, vw, Tmp, <<v>>,
               ctor_in_place(traits, State, w, v))
       /\ next' = Taken(v)

CtorMove(w, other) ==
  /\ Ready
  /\ Constructible(w) /\ life[other] = "live"
  /\ Born("ctor_move", w, view[other], other, <<>>,
          ctor_move(traits, State, w, other))
  /\ UNCHANGED next

CtorPromote(w, other) ==
  /\ Ready
  /\ Constructible(w) /\ life[other] = "live" /\ view[other] = "mut"
  /\ Born("ctor_promote", w, "const", other, <<>>,
          ctor_promote(traits, State, w, other))
  /\ UNCHANGED next

Reset(w) ==
  /\ Ready
  /\ life[w] = "live"
  /\ Mutated("reset", w, Tmp, <<>>, reset(traits, State, w))
  /\ UNCHANGED next

ResetValue(w) ==
  /\ Ready
  /\ life[w] = "live"
  /\ \E u \in Inputs :
       /\ Mutated("reset_u", w, Tmp, <<u>>, reset_u(traits, State, w, u))
       /\ next' = Taken(u)

Disown(w) ==
  /\ Ready
  /\ life[w] = "live"
  /\ \E r \in {disown(traits, State, w)} :
       /\ storage' = r.st.storage
       /\ del' = r.st.del
       /\ disowned' = disowned \cup {r.ret[i] : i \in DOMAIN r.ret}
       /\ modified' = StillHeld(r.st)
       /\ last' = Record("disown", w, Tmp, <<>>,
                         [thrown |-> r.thrown, ret |-> r.ret], r.st)
  /\ UNCHANGED <<collaborators, traits, life, view, next, adapter>>

\* get(); operator*, operator-> and operator& return what get() returns
Access(w) ==
  /\ Ready
  /\ life[w] = "live"
  /\ \E r \in {get(traits, State, w)} :
       last' = Record("get", w, Tmp, <<>>,
                      [thrown |-> r.thrown, ret |-> r.ret], State)
  /\ UNCHANGED <<collaborators, traits, life, view, storage, del, next, disowned,
                 modified, adapter>>

MoveAssign(w, other) ==
  /\ Ready
  /\ life[w] = "live" /\ life[other] = "live" /\ view[w] = view[other]
  /\ Mutated("move_assign", w, other, <<>>,
             move_assign(traits, State, w, other))
  /\ UNCHANGED next

PromoteAssign(w, other) ==
  /\ Ready
  /\ life[w] = "live" /\ life[other] = "live" /\ view[w] = "const" /\ view[other] = "mut"
  /\ Mutated("promote_assign", w, other, <<>>,
             promote_assign(traits, State, w, other))
  /\ UNCHANGED next

Swap(a, b) ==
  /\ Ready
  /\ life[a] = "live" /\ life[b] = "live" /\ view[a] = view[b]
  /\ Mutated("swap", a, b, <<>>, swap(traits, State, a, b))
  /\ UNCHANGED next

Destroy(w) ==
  /\ Ready
  /\ life[w] = "live"
  /\ \E st \in {destructor(traits, State, w)} :
       /\ Bounded(st)
       /\ storage' = st.storage
       /\ del' = st.del
       /\ last' = Record("destroy", w, Tmp, <<>>, NoResult, st)
       /\ modified' = StillHeld(st)
  /\ life' = [life EXCEPT ![w] = "dead"]
  /\ view' = [view EXCEPT ![w] = "none"]
  /\ UNCHANGED <<collaborators, traits, next, disowned, adapter>>

\* a bool as the integer a caller sees
Truth(b) == IF b THEN 1 ELSE 0

\* a == b and a <=> b: ret is <<a == b, a <=> b>>
Compare(a, b) ==
  /\ Ready
  /\ life[a] = "live" /\ life[b] = "live" /\ view[a] = view[b]
  /\ last' = Record("compare", a, b, <<>>,
                    [thrown |-> FALSE,
                     ret |-> <<Truth(equals(traits, storage[a], storage[b])),
                               three_way(traits, storage[a], storage[b])>>],
                    State)
  /\ UNCHANGED <<collaborators, traits, life, view, storage, del, next, disowned,
                 modified, adapter>>

\* The raw values a caller compares a wrapper with: null, the sentinel, a
\* value the traits reject, and what some wrapper holds.
Comparands ==
  {nullptr, Invalid} \cup InvalidRaw(traits)
    \cup {value(storage[x]) : x \in {y \in Wrappers : has_value(traits, storage[y])}}

\* w == v for a raw value v: ret is <<w == v>>
CompareValue(w) ==
  /\ Ready
  /\ life[w] = "live"
  /\ \E v \in Comparands :
       last' = Record("compare_value", w, Tmp, <<v>>,
                      [thrown |-> FALSE,
                       ret |-> <<Truth(equals_value(traits, storage[w], v))>>],
                      State)
  /\ UNCHANGED <<collaborators, traits, life, view, storage, del, next, disowned,
                 modified, adapter>>

\* Mutant: every wrapper hands out a mutable reference.
exposes_mutable_always(vw) == TRUE

\* get() has an overload that returns a mutable reference only for a
\* value_type that is not const
exposes_mutable(vw) == vw = "mut"

\* An object is written through get() / operator-> of a mutable wrapper.
Modify(w) ==
  /\ Ready
  /\ life[w] = "live" /\ exposes_mutable(view[w])
  /\ has_value(traits, storage[w])
  /\ value(storage[w]) \notin modified
  /\ modified' = modified \cup {value(storage[w])}
  /\ last' = Record("modify", w, Tmp, <<>>, NoResult, State)
  /\ UNCHANGED <<collaborators, traits, life, view, storage, del, next, disowned,
                 adapter>>

\* std::inout_ptr(w): the adapter takes the wrapper's value into its slot.
InoutPtr(w) ==
  /\ Ready
  /\ life[w] = "live"
  /\ traits \in PointerKinds
  /\ \E r \in {inout_ptr_ctor(traits, State, w)} :
       /\ storage' = r.st.storage
       /\ del' = r.st.del
       /\ adapter' = [phase |-> "open", kind |-> "inout", smart |-> w,
                      ptr |-> r.ptr, taken |-> r.ptr]
       /\ disowned' = disowned \cup ({r.ptr} \cap Resources)
       /\ last' = Record("inout_ptr", w, Tmp, <<>>,
                         [thrown |-> FALSE, ret |-> <<r.ptr>>], r.st)
  /\ UNCHANGED <<collaborators, traits, life, view, next, modified>>

\* std::out_ptr(w): the adapter resets the wrapper and offers a null slot.
OutPtr(w) ==
  /\ Ready
  /\ life[w] = "live"
  /\ traits \in PointerKinds
  /\ \E r \in {out_ptr_ctor(traits, State, w)} :
       /\ Bounded(r.st)
       /\ storage' = r.st.storage
       /\ del' = r.st.del
       /\ modified' = StillHeld(r.st)
       /\ adapter' = [phase |-> "open", kind |-> "out", smart |-> w,
                      ptr |-> r.ptr, taken |-> r.ptr]
       /\ last' = Record("out_ptr", w, Tmp, <<>>,
                         [thrown |-> FALSE, ret |-> <<r.ptr>>], r.st)
  /\ UNCHANGED <<collaborators, traits, life, view, next, disowned>>

\* What the routine can leave in the slot: what it found, null, a value
\* the traits reject, or a resource it has just acquired.
SlotWrites ==
  {adapter.ptr, nullptr} \cup InvalidRaw(traits)
    \cup (IF next <= MaxVal THEN {next} ELSE {})

\* The external routine that was handed the slot's address: it leaves the
\* slot alone, or frees what it found and writes n; then it returns or
\* throws.  What it frees is released (the Tracker of tests/unique_ptr.cpp
\* counts it) and is nobody's any more.
ExternalCall ==
  /\ last = Idle
  /\ adapter.phase = "open"
  /\ \E n \in SlotWrites, exit \in {"returned", "threw"} :
       LET old == adapter.ptr
           gone == IF n # old THEN {old} \cap Resources ELSE {}
       IN /\ adapter' = [adapter EXCEPT !.phase = exit, !.ptr = n]
          /\ del' = [v \in RawVals |-> IF v \in gone THEN del[v] + 1 ELSE del[v]]
          /\ disowned' = disowned \ gone
          /\ modified' = modified \ gone
          /\ next' = IF n = next THEN next + 1 ELSE next
          /\ last' = Record("external", adapter.smart, Tmp, <<n>>,
                            [thrown |-> exit = "threw", ret |-> <<>>],
                            [State EXCEPT !.ev =
                               [i \in 1..Cardinality(gone) |->
                                  <<"free", old, "external">>]])
  /\ UNCHANGED <<collaborators, traits, life, view, storage>>

\* ~inout_ptr_t() at the end of the full-expression.
InoutPtrDtor ==
  /\ last = Idle
  /\ adapter.kind = "inout"
  /\ destructor_runs(adapter.phase)
  /\ \E st \in {inout_ptr_dtor(traits, State, adapter.smart, adapter.ptr)} :
       /\ Bounded(st)
       /\ storage' = st.storage
       /\ del' = st.del
       /\ disowned' =
            IF has_value(traits, st.storage[adapter.smart])
              THEN disowned \ {value(st.storage[adapter.smart])}
              ELSE disowned
       /\ last' = Record("inout_dtor", adapter.smart, Tmp,
                         <<adapter.ptr, adapter.taken>>,
                         [thrown |-> adapter.phase = "threw", ret |-> <<>>],
                         st)
  /\ adapter' = NoAdapter
  /\ UNCHANGED <<collaborators, traits, life, view, next, modified>>

\* ~out_ptr_t() at the end of the full-expression.
OutPtrDtor ==
  /\ last = Idle
  /\ adapter.kind = "out"
  /\ destructor_runs(adapter.phase)
  /\ \E st \in {out_ptr_dtor(traits, State, adapter.smart, adapter.ptr)} :
       /\ Bounded(st)
       /\ storage' = st.storage
       /\ del' = st.del
       /\ last' = Record("out_dtor", adapter.smart, Tmp,
                         <<adapter.ptr, adapter.taken>>,
                         [thrown |-> adapter.phase = "threw", ret |-> <<>>],
                         st)
  /\ adapter' = NoAdapter
  /\ UNCHANGED <<collaborators, traits, life, view, next, disowned, modified>>

\* The caller moves on from the call that has just returned.
Forget ==
  /\ last # Idle
  /\ last' = Idle
  /\ UNCHANGED <<collaborators, traits, life, view, storage, del, next, disowned,
                 modified, adapter>>

Next ==
  \/ \E w \in Wrappers : CtorNullopt(w)
  \/ \E w \in Wrappers : CtorValue(w)
  \/ \E w \in Wrappers : CtorInPlace(w)
  \/ \E w, o \in Wrappers : CtorMove(w, o)
  \/ \E w, o \in Wrappers : CtorPromote(w, o)
  \/ \E w \in Wrappers : Reset(w)
  \/ \E w \in Wrappers : ResetValue(w)
  \/ \E w \in Wrappers : Disown(w)
  \/ \E w \in Wrappers : Access(w)
  \/ \E w, o \in Wrappers : MoveAssign(w, o)
  \/ \E w, o \in Wrappers : PromoteAssign(w, o)
  \/ \E a, b \in Wrappers : Swap(a, b)
  \/ \E w \in Wrappers : Destroy(w)
  \/ \E a, b \in Wrappers : Compare(a, b)
  \/ \E w \in Wrappers : CompareValue(w)
  \/ \E w \in Wrappers : Modify(w)
  \/ \E w \in Wrappers : InoutPtr(w)
  \/ \E w \in Wrappers : OutPtr(w)
  \/ ExternalCall
  \/ InoutPtrDtor
  \/ OutPtrDtor
  \/ Forget

Spec == Init /\ [][Next]_vars

\* The same program with every wrapper a
\* unique_any<T*, deleter, predicate>: value_type is a pointer and cannot
\* be const-promoted here, so the in-place constructor and the promoting
\* moves do not exist.
InitPtrPred ==
  /\ CollaboratorsInit
  /\ traits = "ptrpred"
  /\ life = [w \in Wrappers |-> "unborn"]
  /\ view = [w \in Wrappers |-> "none"]
  /\ storage = [s \in Slots |-> default_value("ptrpred")]
  /\ del = [v \in RawVals |-> 0]
  /\ next = 1
  /\ disowned = {}
  /\ last = Idle
  /\ modified = {}
  /\ adapter = NoAdapter

NextPtrPred ==
  \/ \E w \in Wrappers : CtorNullopt(w)
  \/ \E w \in Wrappers : CtorValue(w)
  \/ \E w, o \in Wrappers : CtorMove(w, o)
  \/ \E w \in Wrappers : Reset(w)
  \/ \E w \in Wrappers : ResetValue(w)
  \/ \E w \in Wrappers : Disown(w)
  \/ \E w \in Wrappers : Access(w)
  \/ \E w, o \in Wrappers : MoveAssign(w, o)
  \/ \E a, b \in Wrappers : Swap(a, b)
  \/ \E w \in Wrappers : Destroy(w)
  \/ \E a, b \in Wrappers : Compare(a, b)
  \/ \E w \in Wrappers : CompareValue(w)
  \/ Forget

SpecPtrPred == InitPtrPred /\ [][NextPtrPred]_vars

--------------------------------------------------------------------------
(* felly::detail::basic_scope_exit<TWhen, TCallback>                       *)
(* A guard is an automatic object of one thread.  frames is the thread's   *)
(* stack of open scopes, innermost last: a guard, a try block, a handler   *)
(* (catch clause) or the body of some destructor that stack unwinding      *)
(* runs.  A throw starts unwinding: std::uncaught_exceptions() goes up by  *)
(* one, the scopes are left innermost first, and entering the handler      *)
(* brings the count down again.  A callback is named after the guard that  *)
(* was constructed with it.                                                *)

\* basic_scope_exit(TCallback&& f), with now = std::uncaught_exceptions()
scope_ctor(TWhen, f, now) ==
  [TWhen |-> TWhen,
   mInitialUncaught |-> IF TWhen # "Always" THEN now ELSE empty,
   mCallback |-> f,
   mOwned |-> TRUE]

\* Mutant: a guard created while an exception is in flight fires without
\* a new one.
on_failure_or_equal(now, initial) == now >= initial

\* TWhen == OnFailure: std::uncaught_exceptions() > mInitialUncaught
on_failure(now, initial) == now > initial

\* Mutant: any exception in flight at creation counts as none.
on_success_or_less(now, initial) == now >= initial

\* TWhen == OnSuccess: std::uncaught_exceptions() == mInitialUncaught
on_success(now, initial) == now = initial

\* Mutant: no callback while an exception is in flight.
scope_dtor_skips_on_exception(g, now) == g.mOwned /\ now = 0

\* ~basic_scope_exit(): TRUE iff it invokes mCallback
scope_dtor_invokes(g, now) ==
  IF ~g.mOwned
    THEN FALSE
    ELSE CASE g.TWhen = "Always" -> TRUE
           [] g.TWhen = "OnFailure" -> on_failure(now, g.mInitialUncaught)
           [] g.TWhen = "OnSuccess" -> on_success(now, g.mInitialUncaught)

\* Mutant: the source keeps mOwned.
scope_move_ctor_copies(other) == [dest |-> other, src |-> other]

\* basic_scope_exit(basic_scope_exit&& other): [dest, src]
scope_move_ctor(other) ==
  [dest |-> [TWhen |-> other.TWhen,
             mInitialUncaught |-> other.mInitialUncaught,
             mCallback |-> other.mCallback,
             mOwned |-> other.mOwned],
   src |-> [other EXCEPT !.mOwned = FALSE]]

\* Mutant: release() does nothing.
scope_release_keeps_owned(g) == g

\* release()
scope_release(g) == [g EXCEPT !.mOwned = FALSE]

\* The next guard to be constructed.
NextGuard(g) ==
  /\ ginfo[g].life = "unborn"
  /\ \A x \in Guards : x < g => ginfo[x].life # "unborn"

Top == frames[Len(frames)]

Pop == SubSeq(frames, 1, Len(frames) - 1)

Frame(kind) == [kind |-> kind, g |-> 0]

Open(kind) == {i \in DOMAIN frames : frames[i].kind = kind}

\* An exception thrown here reaches a handler: a try block is open, and it
\* is inside every destructor body that is open (an exception that leaves
\* a destructor during unwinding ends the program).
CanThrow ==
  /\ \E g \in Guards : ginfo[g].life # "dead"
  /\ Open("try") # {}
  /\ \A d \in Open("dtor") : \E t \in Open("try") : t > d

\* More guards are to be constructed.
MoreGuards == \E g \in Guards : ginfo[g].life = "unborn"

\* What is kept of a guard that was destroyed.
Dead(g) == [NoInfo EXCEPT !.life = "dead", !.cancelled = ginfo[g].cancelled]

\* A guard is constructed from a fresh callback.
ScopeCtor(g) ==
  /\ ~unwinding
  /\ NextGuard(g)
  /\ Len(frames) < MaxDepth
  /\ guards' = [guards EXCEPT ![g] = scope_ctor(policy, g, uncaught)]
  /\ ginfo' = [ginfo EXCEPT ![g] = [NoInfo EXCEPT !.life = "live",
                                                   !.created = uncaught,
                                                   !.origin = uncaught,
                                                   !.armed = TRUE]]
  /\ frames' = Append(frames, [kind |-> "guard", g |-> g])
  /\ slast' = [SIdle EXCEPT !.op = "ctor", !.g = g, !.now = uncaught]
  /\ UNCHANGED <<policy, unwinding, uncaught, invoked, not_scope>>

\* A guard is move-constructed from a live guard of the same type.
ScopeMove(g, other) ==
  /\ ~unwinding
  /\ NextGuard(g)
  /\ ginfo[other].life = "live"
  /\ Len(frames) < MaxDepth
  /\ \E r \in {scope_move_ctor(guards[other])} :
       guards' = [guards EXCEPT ![g] = r.dest, ![other] = r.src]
  /\ ginfo' = [ginfo EXCEPT ![g] = [NoInfo EXCEPT !.life = "live",
                                                   !.created = uncaught,
                                                   !.origin = ginfo[other].origin,
                                                   !.from = other,
                                                   !.armed = guards[other].mOwned],
                            ![other].moved = TRUE]
  /\ frames' = Append(frames, [kind |-> "guard", g |-> g])
  /\ slast' = [SIdle EXCEPT !.op = "move", !.g = g, !.src = other,
                            !.now = uncaught, !.pre = guards[other],
                            !.info = ginfo[other]]
  /\ UNCHANGED <<policy, unwinding, uncaught, invoked, not_scope>>

\* release() on a live guard
ScopeRelease(g) ==
  /\ ~unwinding
  /\ ginfo[g].life = "live"
  /\ guards' = [guards EXCEPT ![g] = scope_release(guards[g])]
  /\ ginfo' = [ginfo EXCEPT ![g].released = TRUE,
                            ![guards[g].mCallback].cancelled =
                               @ \/ guards[g].mOwned]
  /\ slast' = [SIdle EXCEPT !.op = "release", !.g = g, !.now = uncaught,
                            !.pre = guards[g], !.info = ginfo[g]]
  /\ UNCHANGED <<policy, frames, unwinding, uncaught, invoked, not_scope>>

\* The innermost scope is a guard's and ends, by reaching its end or by
\* the exception that is being propagated: ~basic_scope_exit()
ScopeDtor ==
  /\ frames # <<>>
  /\ Top.kind = "guard"
  /\ LET g == Top.g
         fired == scope_dtor_invokes(guards[g], uncaught)
     IN /\ invoked' = IF fired
                        THEN [invoked EXCEPT ![guards[g].mCallback] = @ + 1]
                        ELSE invoked
        /\ ginfo' = [ginfo EXCEPT ![g] = Dead(g)]
        /\ slast' = [SIdle EXCEPT !.op = "dtor", !.g = g,
                                  !.exit = IF unwinding THEN "exception"
                                                        ELSE "normal",
                                  !.now = uncaught, !.fired = fired,
                                  !.pre = guards[g], !.info = ginfo[g]]
  /\ guards' = [guards EXCEPT ![Top.g] = NoGuard]
  /\ frames' = Pop
  /\ UNCHANGED <<policy, unwinding, uncaught, not_scope>>

\* try {
EnterTry ==
  /\ ~unwinding
  /\ MoreGuards
  /\ Len(frames) < MaxDepth
  /\ frames' = Append(frames, Frame("try"))
  /\ slast' = SIdle
  /\ UNCHANGED <<policy, guards, ginfo, unwinding, uncaught, invoked,
                 not_scope>>

\* the try block reaches its end
LeaveTry ==
  /\ ~unwinding
  /\ frames # <<>>
  /\ Top.kind = "try"
  /\ frames' = Pop
  /\ slast' = SIdle
  /\ UNCHANGED <<policy, guards, ginfo, unwinding, uncaught, invoked,
                 not_scope>>

\* throw x; or, in a handler, throw;
Throw ==
  /\ ~unwinding
  /\ CanThrow
  /\ uncaught < MaxUncaught
  /\ unwinding' = TRUE
  /\ uncaught' = uncaught + 1
  /\ slast' = SIdle
  /\ UNCHANGED <<policy, guards, ginfo, frames, invoked, not_scope>>

\* unwinding reaches the try block: its handler is entered
Catch ==
  /\ unwinding
  /\ frames # <<>>
  /\ Top.kind = "try"
  /\ frames' = Append(Pop, Frame("handler"))
  /\ unwinding' = FALSE
  /\ uncaught' = uncaught - 1
  /\ slast' = SIdle
  /\ UNCHANGED <<policy, guards, ginfo, invoked, not_scope>>

\* the handler reaches its end, or is left by the exception it threw
LeaveHandler ==
  /\ frames # <<>>
  /\ Top.kind = "handler"
  /\ frames' = Pop
  /\ slast' = SIdle
  /\ UNCHANGED <<policy, guards, ginfo, unwinding, uncaught, invoked,
                 not_scope>>

\* unwinding runs the destructor of some other object, whose body is code
\* that runs while the exception is in flight
EnterDtor ==
  /\ unwinding
  /\ MoreGuards
  /\ Len(frames) < MaxDepth
  /\ frames' = Append(frames, Frame("dtor"))
  /\ unwinding' = FALSE
  /\ slast' = SIdle
  /\ UNCHANGED <<policy, guards, ginfo, uncaught, invoked, not_scope>>

\* that destructor returns and unwinding goes on
LeaveDtor ==
  /\ ~unwinding
  /\ frames # <<>>
  /\ Top.kind = "dtor"
  /\ frames' = Pop
  /\ unwinding' = TRUE
  /\ slast' = SIdle
  /\ UNCHANGED <<policy, guards, ginfo, uncaught, invoked, not_scope>>

InitScope ==
  /\ NoWrappers
  /\ policy \in Policies
  /\ ScopeInit
  /\ FlagInit
  /\ GuardedInit
  /\ CastInit

NextScope ==
  \/ \E g \in Guards : ScopeCtor(g)
  \/ \E g, o \in Guards : ScopeMove(g, o)
  \/ \E g \in Guards : ScopeRelease(g)
  \/ ScopeDtor
  \/ EnterTry
  \/ LeaveTry
  \/ Throw
  \/ Catch
  \/ LeaveHandler
  \/ EnterDtor
  \/ LeaveDtor

SpecScope == InitScope /\ [][NextScope]_vars

\* The guard is an automatic object: it has a scope among the open ones.
Automatic(g) ==
  \E i \in DOMAIN frames : frames[i].kind = "guard" /\ frames[i].g = g

\* new scope_fail {f}, or emplace in a std::optional or a member that
\* outlives the current scope: basic_scope_exit(TCallback&& f) for an object
\* whose lifetime is not that of a scope
ScopeNew(g) ==
  /\ ~unwinding
  /\ NextGuard(g)
  /\ guards' = [guards EXCEPT ![g] = scope_ctor(policy, g, uncaught)]
  /\ ginfo' = [ginfo EXCEPT ![g] = [NoInfo EXCEPT !.life = "live",
                                                   !.created = uncaught,
                                                   !.origin = uncaught,
                                                   !.armed = TRUE]]
  /\ slast' = [SIdle EXCEPT !.op = "new", !.g = g, !.now = uncaught]
  /\ UNCHANGED <<policy, frames, unwinding, uncaught, invoked, not_scope>>

\* delete, reset() of the owning smart pointer or optional:
\* ~basic_scope_exit() of such an object, in code that is running
ScopeDelete(g) ==
  /\ ~unwinding
  /\ ginfo[g].life = "live"
  /\ ~Automatic(g)
  /\ LET fired == scope_dtor_invokes(guards[g], uncaught)
     IN /\ invoked' = IF fired
                        THEN [invoked EXCEPT ![guards[g].mCallback] = @ + 1]
                        ELSE invoked
        /\ slast' = [SIdle EXCEPT !.op = "dtor", !.g = g, !.exit = "normal",
                                  !.now = uncaught, !.fired = fired,
                                  !.pre = guards[g], !.info = ginfo[g]]
  /\ ginfo' = [ginfo EXCEPT ![g] = Dead(g)]
  /\ guards' = [guards EXCEPT ![g] = NoGuard]
  /\ UNCHANGED <<policy, frames, unwinding, uncaught, not_scope>>

NextScopeDynamic ==
  \/ NextScope
  \/ \E g \in Guards : ScopeNew(g)
  \/ \E g \in Guards : ScopeDelete(g)

SpecScopeDynamic == InitScope /\ [][NextScopeDynamic]_vars

--------------------------------------------------------------------------
(* felly::moved_flag                                                       *)
(* The operations are functions of m, the mMoved of every flag object and  *)
(* of the temporary of std::swap.                                          *)

\* moved_flag() = default: bool mMoved = false
flag_ctor(m, dst) == [m EXCEPT ![dst] = FALSE]

\* moved_flag(const moved_flag&) = default, operator=(const moved_flag&)
flag_copy(m, dst, src) == [m EXCEPT ![dst] = m[src]]

\* Mutant: the destination is a fresh flag.
flag_move_resets_destination(m, dst, src) ==
  [m EXCEPT ![src] = TRUE, ![dst] = FALSE]

\* moved_flag(moved_flag&& other), operator=(moved_flag&& other):
\* mMoved = std::exchange(other.mMoved, true).  The exchange is complete
\* before the assignment stores its result.
flag_move(m, dst, src) ==
  LET old == m[src]
      exchanged == [m EXCEPT ![src] = TRUE]
  IN [exchanged EXCEPT ![dst] = old]

\* std::swap(a, b): T tmp(std::move(a)); a = std::move(b); b = std::move(tmp);
flag_swap(m, a, b) ==
  flag_move(flag_move(flag_move(m, FTmp, a), a, b), b, FTmp)

\* mMoved of every flag, and of the temporary
Moved == [f \in Flags \cup {FTmp} |->
            IF f = FTmp THEN FALSE ELSE flags[f].mMoved]

\* The next flag to be constructed.
NextFlag(f) ==
  /\ flags[f].life = "unborn"
  /\ \A x \in Flags : x < f => flags[x].life # "unborn"

FlagLive(f) == flags[f].life = "live"

\* Effects of an operation with the result m on the flags.
FlagDone(op, dst, src, m) ==
  /\ flags' = [f \in Flags |->
                 [life |-> IF f = dst THEN "live" ELSE flags[f].life,
                  mMoved |-> m[f]]]
  /\ flast' = [op |-> op, dst |-> dst, src |-> src,
               pre |-> [f \in Flags |-> flags[f].mMoved]]
  /\ UNCHANGED not_flag

FlagCtor(f) ==
  /\ NextFlag(f)
  /\ FlagDone("ctor", f, FTmp, flag_ctor(Moved, f))

FlagCopyCtor(f, other) ==
  /\ NextFlag(f) /\ FlagLive(other)
  /\ FlagDone("copy_ctor", f, other, flag_copy(Moved, f, other))

FlagMoveCtor(f, other) ==
  /\ NextFlag(f) /\ FlagLive(other)
  /\ FlagDone("move_ctor", f, other, flag_move(Moved, f, other))

\* f = other, also with f and other the same object
FlagCopyAssign(f, other) ==
  /\ FlagLive(f) /\ FlagLive(other)
  /\ FlagDone("copy_assign", f, other, flag_copy(Moved, f, other))

\* f = std::move(other), also with f and other the same object
FlagMoveAssign(f, other) ==
  /\ FlagLive(f) /\ FlagLive(other)
  /\ FlagDone("move_assign", f, other, flag_move(Moved, f, other))

FlagSwap(a, b) ==
  /\ FlagLive(a) /\ FlagLive(b)
  /\ FlagDone("swap", a, b, flag_swap(Moved, a, b))

InitFlag ==
  /\ NoWrappers
  /\ policy = "Always"
  /\ ScopeInit
  /\ FlagInit
  /\ GuardedInit
  /\ CastInit

NextFlagOp ==
  \/ \E f \in Flags : FlagCtor(f)
  \/ \E f, o \in Flags : FlagCopyCtor(f, o)
  \/ \E f, o \in Flags : FlagMoveCtor(f, o)
  \/ \E f, o \in Flags : FlagCopyAssign(f, o)
  \/ \E f, o \in Flags : FlagMoveAssign(f, o)
  \/ \E a, b \in Flags : FlagSwap(a, b)

SpecFlag == InitFlag /\ [][NextFlagOp]_vars

--------------------------------------------------------------------------
(* felly::guarded_data<T> and felly::unique_guarded_data_lock<T>           *)
(* One guarded_data object, used by several threads.  An accessor is an    *)
(* object of the thread that constructed it.  The operations on an         *)
(* accessor are functions of g = [mutex, acc]: the thread that has locked  *)
(* mMutex, and the accessor objects.                                       *)

\* unlock() that gives up the ownership and leaves the mutex locked
unique_lock_unlock_keeps_mutex(g, a) ==
  IF ~g.acc[a].owns
    THEN [g |-> g, thrown |-> TRUE]
    ELSE [g |-> [g EXCEPT !.acc[a].owns = FALSE], thrown |-> FALSE]

\* unlock() that does nothing on a lock that is not owned
unique_lock_unlock_silent(g, a) ==
  IF ~g.acc[a].owns
    THEN [g |-> g, thrown |-> FALSE]
    ELSE [g |-> [mutex |-> 0, acc |-> [g.acc EXCEPT ![a].owns = FALSE]],
          thrown |-> FALSE]

\* std::unique_lock::unlock(): [g, thrown]; std::system_error if the lock
\* is not owned
unique_lock_unlock(g, a) ==
  IF ~g.acc[a].owns
    THEN [g |-> g, thrown |-> TRUE]
    ELSE [g |-> [mutex |-> 0, acc |-> [g.acc EXCEPT ![a].owns = FALSE]],
          thrown |-> FALSE]

\* What std::unique_lock::operator=(unique_lock&& u) with u the lock itself
\* leaves, by standard library: the lock as it was, or the mutex unlocked
\* and the lock without mutex (the mutex is unlocked first, then the
\* members are taken from u and u is cleared).
SelfMoveOutcomes == {"kept", "released"}

\* std::unique_lock::operator=(unique_lock&& u): if it owns a lock, that is
\* unlocked; it takes over u's mutex and ownership, and u is left without
\* mutex.  how: the outcome when u is the lock itself.
unique_lock_move_assign(g, a, other, how) ==
  IF a = other
    THEN IF how = "kept"
           THEN g
           ELSE [mutex |-> IF g.acc[a].owns THEN 0 ELSE g.mutex,
                 acc |-> [g.acc EXCEPT ![a].pm = FALSE, ![a].owns = FALSE]]
    ELSE [mutex |-> IF g.acc[a].owns THEN 0 ELSE g.mutex,
          acc |-> [g.acc EXCEPT ![a].pm = g.acc[other].pm,
                                ![a].owns = g.acc[other].owns,
                                ![other].pm = FALSE,
                                ![other].owns = FALSE]]

\* ~unique_lock(): if (owns) pm->unlock()
unique_lock_dtor(g, a) ==
  [g EXCEPT !.mutex = IF g.acc[a].owns THEN 0 ELSE @]

\* guarded_data::lock() by thread t, once mMutex is free:
\* unique_guarded_data_lock<T>(std::unique_lock {mMutex}, &mData)
guarded_lock(g, a, t) ==
  [mutex |-> t,
   acc |-> [g.acc EXCEPT ![a] = [NoAccessor EXCEPT !.life = "live",
                                                   !.thread = t,
                                                   !.pm = TRUE,
                                                   !.owns = TRUE,
                                                   !.mData = "data"]]]

\* a move assignment that copies the data pointer
accessor_move_assign_copies_data(g, a, other, how) ==
  LET g1 == unique_lock_move_assign(g, a, other, how)
  IN [g1 EXCEPT !.acc[a].mData = g1.acc[other].mData]

\* operator=(unique_guarded_data_lock&& other):
\* mLock = std::move(other.mLock);
\* mData = std::exchange(other.mData, nullptr);
accessor_move_assign(g, a, other, how) ==
  LET g1 == unique_lock_move_assign(g, a, other, how)
      old == g1.acc[other].mData
      exchanged == [g1.acc EXCEPT ![other].mData = "nullptr"]
  IN [g1 EXCEPT !.acc = [exchanged EXCEPT ![a].mData = old]]

\* unique_guarded_data_lock(unique_guarded_data_lock&& other):
\* *this = std::move(other), on default-initialised members
accessor_move_ctor(g, a, other) ==
  accessor_move_assign(
    [g EXCEPT !.acc[a] = [NoAccessor EXCEPT !.life = "live",
                                            !.thread = g.acc[other].thread]],
    a, other, "kept")

\* unlock(): mData = nullptr; mLock.unlock();  [g, thrown]
accessor_unlock(g, a) ==
  unique_lock_unlock([g EXCEPT !.acc[a].mData = "nullptr"], a)

\* operator bool
accessor_bool(x) == x.mData # "nullptr"

G == [mutex |-> mMutex, acc |-> acc]

\* The next accessor to be constructed: the first object that does not
\* exist.
NextAccessor(a) ==
  /\ acc[a].life = "unborn"
  /\ \A x \in Accessors : x < a => acc[x].life # "unborn"

AccLive(a) == acc[a].life = "live"

\* What the thread of accessor x has written since its lock(), after an
\* operation on a from src that leaves the accessors r: the access, and
\* with it the record of what was written, moves with the accessor and
\* ends when the accessor is no longer boolean-true.
Written(r, x, a, src) ==
  IF ~accessor_bool(r[x]) THEN 0
  ELSE IF x = a /\ src # 0 /\ src # a THEN acc[src].wrote
  ELSE acc[x].wrote

\* Effects of an operation on accessor a (from src) with the result g.
GuardedDone(op, a, src, thrown, g) ==
  /\ mMutex' = g.mutex
  /\ acc' = [x \in Accessors |->
              [g.acc[x] EXCEPT !.wrote = Written(g.acc, x, a, src)]]
  /\ glast' = [op |-> op, a |-> a, src |-> src, thrown |-> thrown,
               ret |-> 0, pre |-> acc[a],
               from |-> IF src = 0 THEN NoAccessor ELSE acc[src],
               locked |-> mMutex]
  /\ UNCHANGED <<mData, not_guarded>>

\* auto a = guarded.lock(); in thread t.  The thread waits as long as
\* mMutex is locked.
GLock(t, a) ==
  /\ NextAccessor(a)
  /\ mMutex = 0
  /\ GuardedDone("lock", a, 0, FALSE, guarded_lock(G, a, t))

\* a.unlock()
GUnlock(a) ==
  /\ AccLive(a)
  /\ \E r \in {accessor_unlock(G, a)} :
       GuardedDone("unlock", a, 0, r.thrown, r.g)

\* auto a = std::move(other);
GMoveCtor(a, other) ==
  /\ NextAccessor(a)
  /\ AccLive(other)
  /\ GuardedDone("move_ctor", a, other, FALSE,
                 accessor_move_ctor(G, a, other))

\* a = std::move(other); also with a and other the same object
GMoveAssign(a, other) ==
  /\ AccLive(a) /\ AccLive(other)
  /\ acc[a].thread = acc[other].thread
  /\ \E how \in SelfMoveOutcomes :
       GuardedDone("move_assign", a, other, FALSE,
                   accessor_move_assign(G, a, other, how))

\* the accessor's scope ends: ~unique_guarded_data_lock()
GDestroy(a) ==
  /\ AccLive(a)
  /\ \E g \in {unique_lock_dtor(G, a)} :
       GuardedDone("destroy", a, 0, FALSE,
                   [g EXCEPT !.acc[a] = NoAccessor])

\* *a = v through a valid accessor; the thread writes its own number
GWrite(a) ==
  /\ AccLive(a)
  /\ accessor_bool(acc[a])
  /\ mData' = acc[a].thread
  /\ acc' = [acc EXCEPT ![a].wrote = acc[a].thread]
  /\ glast' = [GIdle EXCEPT !.op = "write", !.a = a, !.pre = acc[a],
                            !.locked = mMutex]
  /\ UNCHANGED <<mMutex, not_guarded>>

\* *a read through a valid accessor
GRead(a) ==
  /\ AccLive(a)
  /\ accessor_bool(acc[a])
  /\ glast' = [GIdle EXCEPT !.op = "read", !.a = a, !.ret = mData,
                            !.pre = acc[a], !.locked = mMutex]
  /\ UNCHANGED <<mMutex, mData, acc, not_guarded>>

InitGuarded ==
  /\ NoWrappers
  /\ policy = "Always"
  /\ ScopeInit
  /\ FlagInit
  /\ GuardedInit
  /\ CastInit

NextGuarded ==
  \/ \E t \in Threads, a \in Accessors : GLock(t, a)
  \/ \E a \in Accessors : GUnlock(a)
  \/ \E a, o \in Accessors : GMoveCtor(a, o)
  \/ \E a, o \in Accessors : GMoveAssign(a, o)
  \/ \E a \in Accessors : GDestroy(a)
  \/ \E a \in Accessors : GWrite(a)
  \/ \E a \in Accessors : GRead(a)

SpecGuarded == InitGuarded /\ [][NextGuarded]_vars

--------------------------------------------------------------------------
(* felly::numeric_cast<T>(v), integral to integral                         *)
(* The value of an integer type [signed, bits] is a mathematical integer   *)
(* in the type's range; conversions between types reduce modulo 2^bits.    *)

RECURSIVE Pow2(_)
Pow2(n) == IF n = 0 THEN 1 ELSE 2 * Pow2(n - 1)

\* std::numeric_limits<T>::lowest() and max()
lowest(T) == IF T.signed THEN 0 - Pow2(T.bits - 1) ELSE 0

max(T) == IF T.signed THEN Pow2(T.bits - 1) - 1 ELSE Pow2(T.bits) - 1

ValuesOf(T) == lowest(T)..max(T)

\* static_cast<T>(v) of an integer: the value of T congruent to v modulo
\* 2^bits
static_cast(T, v) ==
  LET m == v % Pow2(T.bits)
  IN IF T.signed /\ m > max(T) THEN m - Pow2(T.bits) ELSE m

\* std::make_unsigned_t<T>
make_unsigned(T) == [T EXCEPT !.signed = FALSE]

\* std::cmp_less(t, u) for t of type T and u of type U: with one
\* signedness the built-in <, otherwise the negative operand is the smaller
\* and the other is compared as unsigned
cmp_less(T, t, U, u) ==
  IF T.signed = U.signed THEN t < u
  ELSE IF T.signed THEN t < 0 \/ static_cast(make_unsigned(T), t) < u
  ELSE u >= 0 /\ t < static_cast(make_unsigned(U), u)

cmp_greater_equal(T, t, U, u) == ~cmp_less(T, t, U, u)

cmp_less_equal(T, t, U, u) == ~cmp_less(U, u, T, t)

\* std::in_range<T>(v) for v of type U
in_range(T, U, v) ==
  /\ cmp_greater_equal(U, v, T, lowest(T))
  /\ cmp_less_equal(U, v, T, max(T))

\* a cast without the range test
numeric_cast_unchecked(T, U, v) ==
  [thrown |-> FALSE, ret |-> static_cast(T, v)]

\* numeric_cast<T>(v): numeric_cast_range_error unless std::in_range<T>(v),
\* static_cast<T>(v) otherwise
numeric_cast(T, U, v) ==
  IF ~in_range(T, U, v)
    THEN [thrown |-> TRUE, ret |-> 0]
    ELSE [thrown |-> FALSE, ret |-> static_cast(T, v)]

\* the calls numeric_cast<T>(v) with v of type U
CastInputs ==
  {[CIdle EXCEPT !.phase = "call", !.T = c[1], !.U = c[2], !.v = c[3]] :
     c \in {x \in IntTypes \X IntTypes \X (lowest([signed |-> TRUE, bits |-> MaxBits])
                                           ..max([signed |-> FALSE, bits |-> MaxBits])) :
              x[3] \in ValuesOf(x[2])}}

NumericCast ==
  /\ ncast.phase = "call"
  /\ \E r \in {numeric_cast(ncast.T, ncast.U, ncast.v)} :
       ncast' = [ncast EXCEPT !.phase = "done", !.thrown = r.thrown,
                              !.ret = r.ret]
  /\ UNCHANGED not_cast

InitCast ==
  /\ NoWrappers
  /\ policy = "Always"
  /\ ScopeInit
  /\ FlagInit
  /\ GuardedInit
  /\ ncast \in CastInputs

NextCast == NumericCast

SpecCast == InitCast /\ [][NextCast]_vars

--------------------------------------------------------------------------
(* Vocabulary of the properties *)

\* operator bool of wrapper w
Bool(w) == has_value(traits, storage[w])

\* wrapper w was holding a value when the last operation started
HeldBefore(w) == has_value(traits, last.pre[w])

Rejected(v) == ~has_value_raw(traits, v)

\* the values the deleter was called for during the last operation, in order
Deleted(ev) ==
  LET dels == SelectSeq(ev, LAMBDA e : e[1] = "del")
  IN [i \in 1..Len(dels) |-> dels[i][2]]

DeletedSet(ev) == {ev[i][2] : i \in {j \in DOMAIN ev : ev[j][1] = "del"}}

NoWrapperLive == \A w \in Wrappers : life[w] # "live"

\* the resources handed to a wrapper so far
Issued == 1..(next - 1)

\* Every resource that was handed in and not disowned: deleted at most once,
\* and exactly once when no wrapper is left.
ReleasedOnce(v) ==
  /\ del[v] <= 1
  /\ NoWrapperLive => del[v] = 1

--------------------------------------------------------------------------
\* C1: a value accepted by a wrapper and never disowned has seen the deleter
\* at most once at any time, and exactly once when every wrapper is
\* destroyed, whatever resets, moves and swaps happened in between.
C1_DeleterExactlyOnce ==
  \A v \in Issued \ disowned : ReleasedOnce(v)

C1_Witness ==
  /\ NoWrapperLive
  /\ next > MaxVal
  /\ disowned = {}
  /\ \A v \in Resources : del[v] = 1
  /\ \A w \in Wrappers : life[w] = "dead"

C3_StorageValidOrEmpty ==
  /\ \A s \in Slots :
       \/ storage[s] = default_value(traits)
       \/ has_value(traits, storage[s])
  /\ (/\ last.op \in {"ctor_value", "ctor_in_place", "reset_u"}
      /\ Rejected(last.arg[1]))
     => storage[last.w] = default_value(traits)

C3_Witness ==
  /\ last.op = "ctor_in_place"
  /\ Rejected(last.arg[1])

C5_SelfMoveAssign ==
  (last.op = "move_assign" /\ last.w = last.src)
  => /\ storage[last.w] = last.pre[last.w]
     /\ Bool(last.w) = HeldBefore(last.w)
     /\ last.ev = <<>>

C5_Witness ==
  /\ last.op = "move_assign"
  /\ last.w = last.src
  /\ Bool(last.w)

--------------------------------------------------------------------------
(* Comparisons *)

\* what the last comparison returned for ==, and for <=>
SaidEqual == last.res.ret[1] = 1

Ordering == last.res.ret[2]

\* C11: two wrappers that hold no value compare equal, whether they were
\* built from nullopt or from (different) rejected raw values, reset,
\* disowned or moved from; a comparison calls no deleter and changes neither
\* operand.
C11_NonHoldingEqual ==
  last.op = "compare"
  => /\ last.ev = <<>>
     /\ storage[last.w] = last.pre[last.w]
     /\ storage[last.src] = last.pre[last.src]
     /\ (~HeldBefore(last.w) /\ ~HeldBefore(last.src))
        => (SaidEqual /\ Ordering = 0)

C11_Witness ==
  /\ last.op = "compare"
  /\ last.w # last.src
  /\ ~Bool(last.w) /\ ~Bool(last.src)
  /\ disowned # {}
  /\ SaidEqual

\* C12: when both wrappers hold a value, == and != agree with the equality
\* of the stored values and <, <=, >, >= with their order; a wrapper that
\* holds a value never equals one that holds none.  Checked on the
\* comparisons the program makes and, with the comparisons of a wrapper
\* with itself that are made before any resource is acquired, on every
\* pair of storage contents (two wrappers of a run never hold the same
\* resource; the comparison operators depend on the traits only).
C12_CompareByValue ==
  /\ last.op = "compare"
     => LET a == last.w
            b == last.src
        IN /\ (Bool(a) /\ Bool(b))
              => /\ SaidEqual <=> value(storage[a]) = value(storage[b])
                 /\ Ordering = Sign(value(storage[a]), value(storage[b]))
           /\ (Bool(a) # Bool(b)) => ~SaidEqual
  /\ (last.op = "compare" /\ last.w = last.src /\ Issued = {})
     => \A v1, v2 \in RawVals, e1, e2 \in BOOLEAN :
       LET s1 == [engaged |-> e1, val |-> v1]
           s2 == [engaged |-> e2, val |-> v2]
       IN /\ (has_value(traits, s1) /\ has_value(traits, s2))
             => /\ equals(traits, s1, s2) <=> v1 = v2
                /\ (three_way(traits, s1, s2) < 0) <=> v1 < v2
                /\ (three_way(traits, s1, s2) <= 0) <=> v1 <= v2
                /\ (three_way(traits, s1, s2) > 0) <=> v1 > v2
                /\ (three_way(traits, s1, s2) >= 0) <=> v1 >= v2
          /\ (has_value(traits, s1) # has_value(traits, s2))
             => ~equals(traits, s1, s2)

C12_Witness ==
  /\ last.op = "compare"
  /\ last.w # last.src
  /\ Bool(last.w) /\ Bool(last.src)
  /\ ~SaidEqual
  /\ Ordering = 1

--------------------------------------------------------------------------
(* Boolean conversion *)

\* the validity predicate the wrapper was given, applied to a stored value
PredicateHolds(k, v) ==
  CASE k = "optpred" -> TPredicate(v)
    [] k = "ptrpred" -> NotSentinel(v)
    [] k \in {"opt", "ptr"} -> TRUE
    [] OTHER -> has_value_raw(k, v)

\* the storage is not the traits' empty representation
NonEmpty(k, s) == IF k \in OptionalKinds THEN s.engaged ELSE s # default_value(k)

\* wrapper w converts to false and its destructor would call no deleter
EmptyAndInert(w) ==
  /\ ~Bool(w)
  /\ destructor(traits, State, w).ev = <<>>

\* C14: operator bool is true exactly when the storage is not empty and the
\* predicate accepts the stored value; a wrapper that was constructed
\* empty, reset, disowned or moved from converts to false, and destroying it
\* calls no deleter, whatever the predicate says about the empty
\* representation.
C14_BoolIffNonEmptyAndValid ==
  /\ \A w \in Wrappers :
       life[w] = "live"
       => (Bool(w) <=> /\ NonEmpty(traits, storage[w])
                       /\ PredicateHolds(traits, value(storage[w])))
  /\ last.op \in {"ctor_nullopt", "reset"} => EmptyAndInert(last.w)
  /\ (last.op = "disown" /\ ~last.res.thrown) => EmptyAndInert(last.w)
  /\ (/\ last.op \in {"ctor_move", "move_assign", "ctor_promote",
                       "promote_assign"}
      /\ last.w # last.src)
     => EmptyAndInert(last.src)
  /\ (last.op = "destroy" /\ ~NonEmpty(traits, last.pre[last.w]))
     => last.ev = <<>>

--------------------------------------------------------------------------
(* In-place construction *)

\* C15: in-place construction of a value the predicate rejects leaves the
\* wrapper empty and never calls the deleter for that value, neither in the
\* constructor nor in the destructor; in-place construction of an accepted
\* value calls no deleter, and that value is deleted exactly once, when it
\* is released.
C15_InPlaceConstruction ==
  /\ (last.op = "ctor_in_place" /\ Rejected(last.arg[1]))
     => /\ ~Bool(last.w)
        /\ storage[last.w] = default_value(traits)
        /\ DeletedSet(last.ev) = {}
        /\ del[last.arg[1]] = 0
        /\ destructor(traits, State, last.w).ev = <<>>
  /\ (last.op = "ctor_in_place" /\ ~Rejected(last.arg[1]))
     => /\ Bool(last.w)
        /\ value(storage[last.w]) = last.arg[1]
        /\ DeletedSet(last.ev) = {}
        /\ del[last.arg[1]] = 0
        /\ Deleted(destructor(traits, State, last.w).ev) = <<last.arg[1]>>
  /\ \A v \in Issued \ disowned : ReleasedOnce(v)

--------------------------------------------------------------------------
(* Const promotion and swap *)

\* the storage the operands had when the last operation started, as a state
BeforeLast ==
  [storage |-> [storage EXCEPT ![last.w] = last.pre[last.w],
                               ![last.src] = last.pre[last.src]],
   del |-> [v \in RawVals |-> 0],
   ev |-> <<>>]

\* what the same-type move would have done in place of the last promotion
SameTypeMove ==
  IF last.op = "ctor_promote"
    THEN ctor_move(traits, BeforeLast, last.w, last.src)
    ELSE move_assign(traits, BeforeLast, last.w, last.src)

\* C16: a const-promoting move construction or assignment leaves the
\* storages and the deleter calls a same-type move would leave: the source
\* is empty, the destination (a const view) holds the source's value with
\* the content written to it before the move, the deleter is not called for
\* that value, a value the assigned-to destination held is deleted exactly
\* once, and the transferred value is deleted exactly once, with that
\* content, when the destination is released.
C16_PromotionIsMove ==
  /\ last.op \in {"ctor_promote", "promote_assign"}
     => /\ storage = SameTypeMove.storage
        /\ Deleted(last.ev) = Deleted(SameTypeMove.ev)
        /\ view[last.w] = "const"
        /\ ~Bool(last.src)
        /\ Bool(last.w) = HeldBefore(last.src)
        /\ Deleted(last.ev) =
             IF HeldBefore(last.w) THEN <<value(last.pre[last.w])>> ELSE <<>>
        /\ HeldBefore(last.w) => del[value(last.pre[last.w])] = 1
  /\ (last.op \in {"ctor_promote", "promote_assign"} /\ HeldBefore(last.src))
     => LET V == value(last.pre[last.src])
            d == destructor(traits, State, last.w).ev
        IN /\ storage[last.src] = default_value(traits)
           /\ value(storage[last.w]) = V
           /\ (V \in modified) <=> (V \in last.mod)
           /\ del[V] = 0
           /\ Len(d) = 1
           /\ d[1][1] = "del" /\ d[1][2] = V
           /\ d[1][4] = (IF V \in last.mod THEN "modified" ELSE "original")
  /\ \A v \in Issued \ disowned :
       /\ del[v] <= 1
       /\ NoWrapperLive => del[v] = 1

C16_Witness ==
  /\ last.op = "promote_assign"
  /\ HeldBefore(last.w)
  /\ HeldBefore(last.src)
  /\ value(last.pre[last.src]) \in last.mod

--------------------------------------------------------------------------
(* Ownership and the std::inout_ptr adapter *)

\* the wrappers that hold v
Holders(v) == {s \in Slots : Bool(s) /\ value(storage[s]) = v}

\* an adapter has v in its slot
InSlot(v) == adapter.phase # "none" /\ adapter.ptr = v

\* C18: every resource is held by at most one wrapper, or by the slot of an
\* adapter and no wrapper, whatever moves, promotions, swaps, resets,
\* disowns and adapter uses happened (each resource is handed in once).
C18_AtMostOneOwner ==
  \A v \in Resources :
    Cardinality(Holders(v)) + (IF InSlot(v) THEN 1 ELSE 0) <= 1

C18_Witness ==
  /\ adapter.phase = "open"
  /\ adapter.ptr \in Resources
  /\ \E w \in Wrappers : Bool(w)
  /\ disowned = {adapter.ptr}

\* C19: a wrapper holds A; an adapter is made for it, and the routine frees
\* A and writes B into the slot.  When the adapter is destroyed the wrapper
\* holds B, A was released exactly once (by the routine: neither the
\* adapter's constructor nor its destructor calls the deleter), B was not
\* released, and the wrapper's destructor calls the deleter once, for B.
C19_InoutEndToEnd ==
  /\ (last.op = "inout_ptr" /\ HeldBefore(last.w))
     => /\ last.res.ret = <<value(last.pre[last.w])>>
        /\ ~Bool(last.w)
        /\ last.ev = <<>>
        /\ del[value(last.pre[last.w])] = 0
  /\ last.op = "inout_dtor" => Deleted(last.ev) = <<>>
  /\ (/\ last.op = "inout_dtor"
      /\ last.arg[2] \in Resources
      /\ last.arg[1] \in Resources \ {last.arg[2]})
     => LET A == last.arg[2]
            B == last.arg[1]
        IN /\ Bool(last.w)
           /\ value(storage[last.w]) = B
           /\ del[A] = 1
           /\ del[B] = 0
           /\ Holders(A) = {}
           /\ Deleted(destructor(traits, State, last.w).ev) = <<B>>
           /\ destructor(traits, State, last.w).del[A] = 1

C19_Witness ==
  /\ last.op = "inout_dtor"
  /\ last.arg[2] \in Resources
  /\ last.arg[1] \in Resources \ {last.arg[2]}
  /\ ~last.res.thrown

\* C20: the adapter's destructor runs once for every adapter, whether the
\* routine returned or threw: while an adapter exists nothing else runs,
\* after the routine its destructor is the step to take, and that step
\* removes the adapter.  It performs reset(slot): the wrapper holds the
\* slot's value if the traits accept it and is empty otherwise.
C20_WriteBack ==
  /\ adapter.kind = "inout"
     => /\ last.op \in {"none", "inout_ptr", "external"}
        /\ life[adapter.smart] = "live"
        /\ ~Bool(adapter.smart)
  /\ (/\ adapter.kind = "inout"
      /\ adapter.phase \in {"returned", "threw"}
      /\ last = Idle)
     => ENABLED InoutPtrDtor
  /\ last.op = "external"
     => adapter.phase = (IF last.res.thrown THEN "threw" ELSE "returned")
  /\ last.op = "inout_dtor"
     => /\ adapter = NoAdapter
        /\ storage = reset_u(traits, BeforeLast, last.w, last.arg[1]).storage
        /\ IF Rejected(last.arg[1])
             THEN storage[last.w] = default_value(traits)
             ELSE /\ Bool(last.w)
                  /\ value(storage[last.w]) = last.arg[1]

C20_Witness ==
  /\ last.op = "inout_dtor"
  /\ last.res.thrown
  /\ last.arg[1] = nullptr
  /\ last.arg[2] \in Resources

--------------------------------------------------------------------------
(* Scope-exit guards *)

\* what a policy asks for, given the exceptions in flight at the two ends
PolicyAllows(TWhen, atExit, atCreation) ==
  CASE TWhen = "Always" -> TRUE
    [] TWhen = "OnFailure" -> atExit > atCreation
    [] TWhen = "OnSuccess" -> atExit = atCreation

\* The guard had a pending callback when it was constructed, and was
\* neither released nor moved from since.
Pending(info) == info.armed /\ ~info.released /\ ~info.moved

\* the guard whose destructor was the last step had a pending callback
DtorOfPending == slast.op = "dtor" /\ Pending(slast.info)

\* C23: a scope_exit guard (policy Always) with a pending callback has not
\* invoked it while it lives, and its destructor invokes it, once, whether
\* the scope is left normally or by an exception.
C23_ScopeExitAlways ==
  /\ \A g \in Guards :
       (/\ ginfo[g].life = "live"
        /\ guards[g].TWhen = "Always"
        /\ Pending(ginfo[g]))
       => invoked[guards[g].mCallback] = 0
  /\ (DtorOfPending /\ slast.pre.TWhen = "Always")
     => /\ slast.fired
        /\ invoked[slast.pre.mCallback] = 1

C23_Witness ==
  /\ DtorOfPending
  /\ slast.pre.TWhen = "Always"
  /\ slast.exit = "exception"
  /\ invoked[slast.pre.mCallback] = 1

\* C24: the destructor of a scope_fail guard with a pending callback invokes
\* it iff more exceptions are in flight than when the guard with that
\* callback was constructed.  For a guard constructed with the same count
\* as that one (every guard that was not move-constructed), that is: iff
\* its scope is left by an exception, be it in a handler or not.
C24_ScopeFail ==
  (DtorOfPending /\ slast.pre.TWhen = "OnFailure")
  => /\ slast.fired <=> slast.now > slast.info.origin
     /\ slast.info.from = 0 => slast.info.created = slast.info.origin
     /\ slast.info.created = slast.info.origin
        => (slast.fired <=> slast.exit = "exception")

\* a scope_fail guard in a handler is left by the exception the handler
\* threw, and fires
C24_Witness ==
  /\ DtorOfPending
  /\ slast.pre.TWhen = "OnFailure"
  /\ slast.fired
  /\ frames # <<>>
  /\ Top.kind = "handler"
  /\ unwinding

\* C25: the destructor of a scope_success guard with a pending callback
\* invokes it iff as many exceptions are in flight as when the guard with
\* that callback was constructed.  For a guard constructed with the same
\* count as that one (every guard that was not move-constructed), that is:
\* iff its scope is left normally, be it in a handler or not.
C25_ScopeSuccess ==
  (DtorOfPending /\ slast.pre.TWhen = "OnSuccess")
  => /\ slast.fired <=> slast.now = slast.info.origin
     /\ slast.info.from = 0 => slast.info.created = slast.info.origin
     /\ slast.info.created = slast.info.origin
        => (slast.fired <=> slast.exit = "normal")

\* a scope_success guard in a handler reaches the end of its scope, and
\* fires
C25_Witness ==
  /\ DtorOfPending
  /\ slast.pre.TWhen = "OnSuccess"
  /\ slast.fired
  /\ frames # <<>>
  /\ Top.kind = "handler"
  /\ ~unwinding

\* C26: release() invokes nothing and leaves the guard without a pending
\* callback; a second release() changes nothing; the destructor of a guard
\* that was released invokes nothing, however the scope is left and
\* whatever the policy; and a callback whose guard was released is never
\* invoked.
C26_Release ==
  /\ slast.op = "release"
     => /\ ~guards[slast.g].mOwned
        /\ ~slast.fired
        /\ slast.pre.mOwned => invoked[slast.pre.mCallback] = 0
        /\ slast.info.released => guards[slast.g] = slast.pre
        /\ scope_release(scope_release(slast.pre)) = scope_release(slast.pre)
  /\ (slast.op = "dtor" /\ slast.info.released) => ~slast.fired
  /\ \A f \in Guards : ginfo[f].cancelled => invoked[f] = 0

\* a released scope_fail guard is left by an exception
C26_Witness ==
  /\ slast.op = "dtor"
  /\ slast.info.released
  /\ slast.info.armed
  /\ ~slast.info.moved
  /\ slast.pre.TWhen = "OnFailure"
  /\ slast.exit = "exception"

\* C27: the move constructor gives the destination the callback, the
\* creation count and mOwned of the source and leaves the source without a
\* pending callback.  The destructor of a guard that was moved from invokes
\* nothing; that of a move-constructed guard (not released or moved from
\* itself) invokes the callback iff the source was armed and the policy
\* allows it; and no callback is invoked twice.
C27_MoveTransfers ==
  /\ slast.op = "move"
     => /\ ~guards[slast.src].mOwned
        /\ guards[slast.g].mOwned = slast.pre.mOwned
        /\ guards[slast.g].mCallback = slast.pre.mCallback
        /\ guards[slast.g].mInitialUncaught = slast.pre.mInitialUncaught
  /\ (slast.op = "dtor" /\ slast.info.moved) => ~slast.fired
  /\ (/\ slast.op = "dtor"
      /\ slast.info.from # 0
      /\ ~slast.info.released
      /\ ~slast.info.moved)
     => (slast.fired <=> /\ slast.info.armed
                         /\ PolicyAllows(policy, slast.now,
                                          slast.info.origin))
  /\ \A f \in Guards : invoked[f] <= 1

\* the last guard of a chain of two moves fires
C27_Witness ==
  /\ slast.op = "dtor"
  /\ slast.fired
  /\ slast.info.from # 0
  /\ ginfo[slast.info.from].from # 0
  /\ ginfo[slast.info.from].moved

--------------------------------------------------------------------------
(* Moved flags *)

FlagMoves == {"move_ctor", "move_assign"}

FlagCopies == {"copy_ctor", "copy_assign"}

\* C28: a flag reads 'not moved' after its default constructor, and the
\* source of a move construction or move assignment reads 'moved'
\* afterwards, whatever the destination is.
C28_SourceReadsMoved ==
  /\ flast.op = "ctor" => ~flags[flast.dst].mMoved
  /\ flast.op \in FlagMoves => flags[flast.src].mMoved

\* C29: the destination of a move has the state the source had before; a
\* copy gives the destination the source's state and leaves the source as
\* it was; std::swap exchanges the two states; and no other flag changes.
C29_DestinationAndCopy ==
  /\ flast.op \in FlagMoves
     => flags[flast.dst].mMoved = flast.pre[flast.src]
  /\ flast.op \in FlagCopies
     => /\ flags[flast.dst].mMoved = flast.pre[flast.src]
        /\ flags[flast.src].mMoved = flast.pre[flast.src]
  /\ flast.op = "swap"
     => /\ flags[flast.dst].mMoved = flast.pre[flast.src]
        /\ flags[flast.src].mMoved = flast.pre[flast.dst]
  /\ flast.op # "none"
     => \A f \in Flags \ {flast.dst, flast.src} :
          flags[f].mMoved = flast.pre[f]

\* a flag is move-constructed from a flag that was moved from
C29_Witness ==
  /\ flast.op = "move_ctor"
  /\ flast.pre[flast.src]
  /\ flags[flast.dst].mMoved

--------------------------------------------------------------------------
(* Guarded data *)

\* the accessors that are boolean-true
Valid == {a \in Accessors : AccLive(a) /\ accessor_bool(acc[a])}

\* C30: at most one accessor of the guarded_data is boolean-true at any
\* time, so that lock() returns only when no other accessor is; and what a
\* thread wrote through its accessor is still there for it to read as long
\* as that accessor is boolean-true.
C30_Exclusive ==
  /\ Cardinality(Valid) <= 1
  /\ glast.op = "lock" => Valid = {glast.a}
  /\ \A a \in Valid : acc[a].wrote # 0 => mData = acc[a].wrote
  /\ glast.op = "read" /\ glast.pre.wrote # 0 => glast.ret = glast.pre.wrote

\* the accessors whose std::unique_lock owns mMutex
Owners == {a \in Accessors : AccLive(a) /\ acc[a].owns}

\* the accessor of the last operation was boolean-true before it
WasValid == accessor_bool(glast.pre)

\* C31: unlock() on a boolean-true accessor leaves it boolean-false and
\* without the mutex, and the destruction of a boolean-true accessor gives
\* the mutex up as well: the mutex it owned is unlocked, and the mutex is
\* never left locked without an accessor that owns it, so that lock() can
\* return again, also while the unlocked accessor object still exists.  The
\* accessor lock() returns then is boolean-true, and a read through it gives
\* the current data.
C31_UnlockReleases ==
  /\ (glast.op = "unlock" /\ WasValid)
     => /\ AccLive(glast.a)
        /\ ~accessor_bool(acc[glast.a])
        /\ ~acc[glast.a].owns
        /\ glast.pre.owns => (mMutex = 0 /\ ~glast.thrown)
  /\ (glast.op = "destroy" /\ WasValid)
     => /\ ~AccLive(glast.a)
        /\ glast.pre.owns => mMutex = 0
  /\ mMutex # 0 => Owners # {}
  /\ mMutex = 0 => ENABLED (\E t \in Threads, a \in Accessors : GLock(t, a))
                   \/ \A a \in Accessors : AccLive(a)
  /\ glast.op = "lock"
     => /\ accessor_bool(acc[glast.a])
        /\ acc[glast.a].owns
        /\ mMutex = acc[glast.a].thread
  /\ glast.op = "read" => glast.ret = mData

\* unlock() has released the mutex; the unlocked accessor is still there, it
\* is boolean-false, and lock() can return
C31_Witness ==
  /\ glast.op = "unlock"
  /\ WasValid /\ glast.pre.owns
  /\ AccLive(glast.a) /\ ~accessor_bool(acc[glast.a])
  /\ mMutex = 0
  /\ ENABLED (\E t \in Threads, a \in Accessors : GLock(t, a))

\* C32: unlock() on an accessor whose lock is not owned (it was unlocked, or
\* moved from) throws std::system_error, leaves the accessor boolean-false
\* and the mutex as it was; an accessor that owns the lock still has the
\* mutex locked.
C32_UnlockWithoutLock ==
  /\ (glast.op = "unlock" /\ ~glast.pre.owns)
     => /\ glast.thrown
        /\ ~accessor_bool(acc[glast.a])
        /\ ~acc[glast.a].owns
        /\ mMutex = glast.locked
  /\ (glast.op = "unlock" /\ glast.thrown) => ~glast.pre.owns
  /\ \A a \in Owners : mMutex = acc[a].thread

\* unlock() of a moved-from accessor has thrown while another accessor holds
\* the mutex
C32_Witness ==
  /\ glast.op = "unlock"
  /\ ~WasValid /\ ~glast.pre.owns
  /\ glast.thrown
  /\ mMutex # 0
  /\ \E a \in Owners : a # glast.a /\ accessor_bool(acc[a])

\* the last operation moved an accessor to a different accessor
MovedAcross ==
  /\ glast.op \in {"move_ctor", "move_assign"}
  /\ glast.a # glast.src

\* C33: a move to a different accessor gives the destination what the
\* source had: the destination is boolean-true iff the source was, it points
\* to the same data, it owns the lock iff the source did, and the mutex the
\* source had locked stays locked throughout; the source is boolean-false
\* and owns nothing afterwards, so that its destruction leaves the mutex
\* as it is; a move from a boolean-false accessor gives a boolean-false
\* accessor.
C33_MoveTransfersLock ==
  /\ MovedAcross
     => /\ accessor_bool(acc[glast.a]) = accessor_bool(glast.from)
        /\ acc[glast.a].mData = glast.from.mData
        /\ acc[glast.a].owns = glast.from.owns
        /\ glast.from.owns => (mMutex = glast.locked /\ mMutex # 0)
        /\ AccLive(glast.src)
        /\ ~accessor_bool(acc[glast.src])
        /\ ~acc[glast.src].owns
  /\ (glast.op = "destroy" /\ ~glast.pre.owns) => mMutex = glast.locked

\* a boolean-true accessor that holds the mutex was moved to another one
C33_Witness ==
  /\ MovedAcross
  /\ accessor_bool(glast.from) /\ glast.from.owns
  /\ accessor_bool(acc[glast.a]) /\ acc[glast.a].owns
  /\ mMutex # 0

\* C34: the move assignment of a boolean-true accessor that holds the mutex
\* to itself leaves it boolean-true, pointing to the data and owning the
\* lock: the mutex stays locked by its thread, so that lock() cannot return
\* in the meantime.
C34_SelfMoveKeepsLock ==
  (/\ glast.op = "move_assign"
   /\ glast.a = glast.src
   /\ WasValid /\ glast.pre.owns)
  => /\ accessor_bool(acc[glast.a])
     /\ acc[glast.a].mData = glast.pre.mData
     /\ acc[glast.a].owns
     /\ mMutex = glast.locked
     /\ mMutex = acc[glast.a].thread
     /\ ~ENABLED (\E t \in Threads, a \in Accessors : GLock(t, a))

\* C39: an accessor is boolean-true exactly if its lock owns the mutex, and
\* then the mutex is locked by its thread.
C39_ValidIffOwns ==
  \A a \in Accessors :
    AccLive(a)
    => /\ accessor_bool(acc[a]) <=> acc[a].owns
       /\ acc[a].owns => mMutex = acc[a].thread

--------------------------------------------------------------------------
(* Numeric cast *)

\* C35: numeric_cast<T>(v) from one integer type to another returns v
\* itself, a value of T, whenever lowest(T) <= v <= max(T), and throws the
\* range error for every other v: no result differs from the argument.
C35_IntegralCast ==
  ncast.phase = "done"
  => /\ ~ncast.thrown <=> (lowest(ncast.T) <= ncast.v /\ ncast.v <= max(ncast.T))
     /\ ~ncast.thrown => (ncast.ret = ncast.v /\ ncast.ret \in ValuesOf(ncast.T))

\* a negative value was cast to an unsigned type as wide as its own, and
\* the cast has thrown
C35_Witness ==
  /\ ncast.phase = "done"
  /\ ncast.U.signed /\ ~ncast.T.signed
  /\ ncast.T.bits = ncast.U.bits
  /\ ncast.v < 0
  /\ ncast.thrown

--------------------------------------------------------------------------
(* Storage traits *)

\* the operations of the wrapper that call TTraits::construct
Constructs == {"ctor_value", "ctor_in_place", "reset_u"}

\* TTraits::destroy on every slot that has a value leaves the default
\* value, which has none
DestroyEmpties ==
  \A w \in Wrappers :
    (life[w] = "live" /\ Bool(w))
    => LET d == destroy(traits, State, w)
       IN /\ d.storage[w] = default_value(traits)
          /\ ~has_value(traits, d.storage[w])

BuiltIn == {"opt", "optpred", "ptr"}

\* the deleter calls of the last operation
DeleterCalls == SelectSeq(last.ev, LAMBDA e : e[1] = "del")

--------------------------------------------------------------------------
(* Read-only operations *)

Reads == {"get", "compare", "compare_value"}

\* C38: get() and the dereference operators, the boolean conversion and the
\* comparisons leave the wrapper as it was: the same storage, the same
\* answer to bool, no deleter call, no object written; an object is written
\* only through a wrapper over a mutable value type.  So every deleter call
\* finds the value as it was when the operation began, and for a value that
\* only wrappers over a const value type have held, as it was accepted.
C38_ReadOnly ==
  /\ last.op \in Reads
     => /\ storage[last.w] = last.pre[last.w]
        /\ storage[last.src] = last.pre[last.src]
        /\ Bool(last.w) = HeldBefore(last.w)
        /\ last.ev = <<>>
        /\ modified = last.mod
  /\ last.op = "modify" => view[last.w] = "mut"
  /\ last.op \notin {"modify", "none"} => modified \subseteq last.mod
  /\ \A i \in 1..Len(DeleterCalls) :
       DeleterCalls[i][4] = (IF DeleterCalls[i][2] \in last.mod
                               THEN "modified" ELSE "original")
  /\ traits \notin PromotableKinds => modified = {}

\* get() on a holding wrapper over a const value type has returned the value
C38_Witness ==
  /\ last.op = "get"
  /\ view[last.w] = "const"
  /\ HeldBefore(last.w)
  /\ ~last.res.thrown
  /\ last.res.ret = <<value(storage[last.w])>>
  /\ value(storage[last.w]) \in Resources

--------------------------------------------------------------------------
(* scope_fail and scope_success *)

\* what the destructor of guard g would do at count now, were g of policy p
WouldInvoke(p, g, now) == scope_dtor_invokes([g EXCEPT !.TWhen = p], now)

\* C40: when the destructor of a scope_fail or scope_success guard that
\* owns its callback runs, it does what its policy says, and exactly one of
\* a scope_fail and a scope_success guard with the same count at creation
\* invokes its callback at the count of that moment.
C40_Complementary ==
  (/\ slast.op = "dtor"
   /\ slast.pre.mOwned
   /\ slast.pre.TWhen # "Always")
  => /\ slast.fired = WouldInvoke(slast.pre.TWhen, slast.pre, slast.now)
     /\ WouldInvoke("OnFailure", slast.pre, slast.now)
          # WouldInvoke("OnSuccess", slast.pre, slast.now)

====
